---- MODULE Spec2Model ----
(***************************************************************************)
(* Model of the Modbus RTU master firmware (sensor_hu_standalone):         *)
(*   - the expression mini-language (src/src/expression_parser.cpp),       *)
(*   - the calculation pass and the read/write phases of the cycle         *)
(*     (src/src/calculations.cpp, src/src/modbus_handler.cpp, main.cpp),   *)
(*   - the recursive configuration mutex, the pause flags and the request  *)
(*     handlers that use them (src/src/config.cpp, web_server.cpp,         *)
(*     config_storage.cpp).                                                *)
(*                                                                         *)
(* Text is a TLA+ string; a character is a string of length 1 and the end  *)
(* of a C string (the terminating NUL) is the empty string.  C doubles and *)
(* floats are exact rationals [n, d] (d > 0, lowest terms); NaN is the     *)
(* pair n = 0, d = 0.                                                      *)
(*                                                                         *)
(* A local of the code that is read several times is bound once, as        *)
(* Where({ body : x \in {e} }): the value of body where x = e.  Nested      *)
(* bindings read from the last line (the first local) upwards.             *)
(***************************************************************************)
EXTENDS Integers, Sequences, FiniteSets, TLC

Where(S) == CHOOSE v \in S : TRUE

(***************************************************************************)
(* Characters and C string helpers                                         *)
(***************************************************************************)
NUL == ""

\* s[p] of a NUL-terminated C string (1-based position)
Ch(s, p) == IF p >= 1 /\ p <= Len(s) THEN SubSeq(s, p, p) ELSE NUL

isdigit(c) == c \in {"0", "1", "2", "3", "4", "5", "6", "7", "8", "9"}
isalpha(c) == c \in {"a", "b", "c", "d", "e", "f", "g", "h", "i", "j", "k", "l", "m",
                      "n", "o", "p", "q", "r", "s", "t", "u", "v", "w", "x", "y", "z",
                      "A", "B", "C", "D", "E", "F", "G", "H", "I", "J", "K", "L", "M",
                      "N", "O", "P", "Q", "R", "S", "T", "U", "V", "W", "X", "Y", "Z"}

\* the characters String::trim() and strtod() treat as white space
isspace(c) == c \in {" ", "\t", "\n", "\r"}

DigitVal(c) == CASE c = "0" -> 0 [] c = "1" -> 1 [] c = "2" -> 2 [] c = "3" -> 3
                 [] c = "4" -> 4 [] c = "5" -> 5 [] c = "6" -> 6 [] c = "7" -> 7
                 [] c = "8" -> 8 [] c = "9" -> 9

DigitChar(v) == CASE v = 0 -> "0" [] v = 1 -> "1" [] v = 2 -> "2" [] v = 3 -> "3"
                  [] v = 4 -> "4" [] v = 5 -> "5" [] v = 6 -> "6" [] v = 7 -> "7"
                  [] v = 8 -> "8" [] v = 9 -> "9"

\* strchr / String::indexOf: first position >= from holding c, 0 when absent
RECURSIVE IndexOf(_, _, _)
IndexOf(s, c, from) ==
    IF from > Len(s) THEN 0
    ELSE IF Ch(s, from) = c THEN from
    ELSE IndexOf(s, c, from + 1)

\* String::trim(): strips white space at both ends
RECURSIVE trim(_)
trim(s) ==
    IF Len(s) > 0 /\ isspace(Ch(s, 1)) THEN trim(Tail(s))
    ELSE IF Len(s) > 0 /\ isspace(Ch(s, Len(s))) THEN trim(SubSeq(s, 1, Len(s) - 1))
    ELSE s

(***************************************************************************)
(* Exact arithmetic standing for double / float                            *)
(***************************************************************************)
Abs(x) == IF x < 0 THEN -x ELSE x

RECURSIVE Gcd(_, _)
Gcd(a, b) == IF b = 0 THEN a ELSE Gcd(b, a % b)

NaN == [n |-> 0, d |-> 0]
IsNaN(r) == r.d = 0

Rat(n, d) ==
    IF d = 0 THEN NaN
    ELSE [n |-> ((IF d < 0 THEN -1 ELSE 1) * n) \div Gcd(Abs(n), Abs(d)),
          d |-> Abs(d) \div Gcd(Abs(n), Abs(d))]

Num(k) == [n |-> k, d |-> 1]

RAdd(a, b) == IF IsNaN(a) \/ IsNaN(b) THEN NaN ELSE Rat(a.n * b.d + b.n * a.d, a.d * b.d)
RNeg(a) == IF IsNaN(a) THEN NaN ELSE [n |-> -a.n, d |-> a.d]
RSub(a, b) == RAdd(a, RNeg(b))
RMul(a, b) == IF IsNaN(a) \/ IsNaN(b) THEN NaN ELSE Rat(a.n * b.n, a.d * b.d)
\* callers test the divisor against zero first, as the code does
RDiv(a, b) == IF IsNaN(a) \/ IsNaN(b) THEN NaN ELSE Rat(a.n * b.d, a.d * b.n)

\* every ordered comparison with NaN is false, as in IEEE 754
RLt(a, b) == ~IsNaN(a) /\ ~IsNaN(b) /\ a.n * b.d < b.n * a.d
RLe(a, b) == ~IsNaN(a) /\ ~IsNaN(b) /\ a.n * b.d <= b.n * a.d
IsZero(a) == ~IsNaN(a) /\ a.n = 0

\* conversion of a non-negative value to an unsigned integer: truncation
Trunc(a) == IF a.n >= 0 THEN a.n \div a.d ELSE -((-a.n) \div a.d)

\* pow() for the exponents the model can represent exactly (integers)
RECURSIVE RPowNat(_, _)
RPowNat(a, k) == IF k = 0 THEN Num(1) ELSE RMul(a, RPowNat(a, k - 1))

\* fmod(a, b): a - trunc(a / b) * b, NaN when b is zero
RFmod(a, b) ==
    IF IsNaN(a) \/ IsNaN(b) \/ IsZero(b) THEN NaN
    ELSE RSub(a, RMul(Num(Trunc(RDiv(a, b))), b))



(***************************************************************************)
(* expression_parser.cpp: scanning helpers                                 *)
(***************************************************************************)
RECURSIVE skipSpaces(_, _)
skipSpaces(s, p) == IF Ch(s, p) \in {" ", "\t"} THEN skipSpaces(s, p + 1) ELSE p

RECURSIVE SkipIsspace(_, _)
SkipIsspace(s, p) == IF isspace(Ch(s, p)) THEN SkipIsspace(s, p + 1) ELSE p

RECURSIVE SkipDigits(_, _)
SkipDigits(s, p) == IF isdigit(Ch(s, p)) THEN SkipDigits(s, p + 1) ELSE p

\* value of the decimal digits s[from .. to-1]
RECURSIVE DigitsValue(_, _, _)
DigitsValue(s, from, to) ==
    IF to <= from THEN 0
    ELSE DigitsValue(s, from, to - 1) * 10 + DigitVal(Ch(s, to - 1))

RECURSIVE Pow10(_)
Pow10(k) == IF k = 0 THEN 1 ELSE 10 * Pow10(k - 1)

\* strtod(): white space, sign, digits with an optional fraction, optional
\* decimal exponent.  ok = FALSE stands for end == *expr (nothing converted).
\* p1: first digit, p2: end of the integer digits, p3: end of the fraction,
\* e2: first exponent digit, e3: end of the exponent digits.
strtod(s, p) ==
    Where({ Where({ Where({ Where({ Where({ Where({
        IF (p2 - p1) + (IF Ch(s, p2) = "." THEN p3 - (p2 + 1) ELSE 0) = 0
        THEN [ok |-> FALSE, val |-> Num(0), pos |-> p]
        ELSE [ok  |-> TRUE,
              val |-> IF Ch(s, SkipIsspace(s, p)) = "-" THEN RNeg(scaled) ELSE scaled,
              pos |-> IF Ch(s, p3) \in {"e", "E"} /\ e3 > e2 THEN e3 ELSE p3]
        : scaled \in {IF ~(Ch(s, p3) \in {"e", "E"} /\ e3 > e2) THEN mant
                      ELSE IF Ch(s, p3 + 1) = "-"
                           THEN RDiv(mant, Num(Pow10(DigitsValue(s, e2, e3))))
                      ELSE RMul(mant, Num(Pow10(DigitsValue(s, e2, e3))))} })
        : mant \in {Rat(DigitsValue(s, p1, p2) * Pow10(IF Ch(s, p2) = "." THEN p3 - (p2 + 1) ELSE 0)
                          + (IF Ch(s, p2) = "." THEN DigitsValue(s, p2 + 1, p3) ELSE 0),
                        Pow10(IF Ch(s, p2) = "." THEN p3 - (p2 + 1) ELSE 0))},
          e3   \in {SkipDigits(s, e2)} })
        : e2 \in {IF Ch(s, p3 + 1) \in {"-", "+"} THEN p3 + 2 ELSE p3 + 1} })
        : p3 \in {IF Ch(s, p2) = "." THEN SkipDigits(s, p2 + 1) ELSE p2} })
        : p2 \in {SkipDigits(s, p1)} })
        : p1 \in {IF Ch(s, SkipIsspace(s, p)) \in {"-", "+"}
                  THEN SkipIsspace(s, p) + 1 ELSE SkipIsspace(s, p)} })

\* parseNumber(): skipSpaces, then strtod
parseNumber(s, p) ==
    IF Ch(s, skipSpaces(s, p)) = NUL
    THEN [ok |-> FALSE, val |-> Num(0), pos |-> skipSpaces(s, p)]
    ELSE strtod(s, skipSpaces(s, p))

RECURSIVE SkipIdent(_, _)
SkipIdent(s, p) ==
    IF isdigit(Ch(s, p)) \/ isalpha(Ch(s, p)) \/ Ch(s, p) = "_"
    THEN SkipIdent(s, p + 1) ELSE p

\* parseIdentifier(): [name, pos]; the empty name when no identifier starts
parseIdentifier(s, p) ==
    Where({ IF isalpha(Ch(s, q)) \/ Ch(s, q) = "_"
            THEN [name |-> SubSeq(s, q, SkipIdent(s, q) - 1), pos |-> SkipIdent(s, q)]
            ELSE [name |-> "", pos |-> q]
            : q \in {skipSpaces(s, p)} })

\* index of the first variable with this name, 0 when there is none
RECURSIVE FindVar(_, _, _)
FindVar(vars, name, i) ==
    IF i > Len(vars) THEN 0
    ELSE IF vars[i].name = name THEN i
    ELSE FindVar(vars, name, i + 1)

(***************************************************************************)
(* expression_parser.cpp: the recursive-descent evaluator                  *)
(* A result is [ok, val, pos, err]: success flag, value, position of the   *)
(* cursor after the call and the message written to errorMsg.              *)
(***************************************************************************)
EvOk(v, p) == [ok |-> TRUE, val |-> v, pos |-> p, err |-> ""]
EvFail(p, msg) == [ok |-> FALSE, val |-> Num(0), pos |-> p, err |-> msg]

\* results of libm calls that have no exact rational value are not modelled
\* ("libm"); the enumerated inputs never reach them

\* pow(base, exponent)
pow(b, e) ==
    IF IsNaN(b) \/ IsNaN(e) THEN [ok |-> TRUE, val |-> NaN]
    ELSE IF e.d = 1 /\ e.n >= 0 THEN [ok |-> TRUE, val |-> RPowNat(b, e.n)]
    ELSE IF e.d = 1 /\ ~IsZero(b)
         THEN [ok |-> TRUE, val |-> RDiv(Num(1), RPowNat(b, -e.n))]
    ELSE [ok |-> FALSE, val |-> NaN]

\* fabs(x) < 0.000001, fabs(x) >= 0.000001 and fabs(x) > 0.000001; all are
\* false for NaN (|n| >= 2000 already decides, and keeps the products small)
BelowEpsilon(x) == ~IsNaN(x) /\ Abs(x.n) < 2000 /\ Abs(x.n) * 1000000 < x.d
AboveEpsilon(x) == ~IsNaN(x) /\ (Abs(x.n) >= 2000 \/ Abs(x.n) * 1000000 > x.d)

RECURSIVE evalTerm(_, _, _)
RECURSIVE evalComparison(_, _, _)
RECURSIVE MulLoop(_, _, _, _)
RECURSIVE AddLoop(_, _, _, _)

evalExpression(s, p, vars) == evalComparison(s, p, vars)

\* the one-argument functions, applied after the argument and ')' were read
ApplyFunction(identifier, arg, p) ==
    IF identifier \in {"sin", "cos", "tan", "exp"} THEN EvFail(p, "libm")
    ELSE IF identifier = "sqrt" THEN
        IF RLt(arg, Num(0)) THEN EvFail(p, "Raiz quadrada de numero negativo")
        ELSE IF IsZero(arg) \/ arg = Num(1) THEN EvOk(arg, p)
        ELSE EvFail(p, "libm")
    ELSE IF identifier = "abs" THEN EvOk(IF RLt(arg, Num(0)) THEN RNeg(arg) ELSE arg, p)
    ELSE IF identifier = "log" THEN
        IF RLe(arg, Num(0)) THEN EvFail(p, "Log de numero <= 0")
        ELSE IF arg = Num(1) THEN EvOk(Num(0), p)
        ELSE EvFail(p, "libm")
    ELSE EvFail(p, "Funcao desconhecida")

\* an if that evaluates only the branch its condition selects and skips the
\* text of the other one
EvalIfSelected(s, p, vars) ==
    Where({
        IF ~c.ok THEN c
        ELSE IF AboveEpsilon(c.val) THEN
            Where({
                IF ~t.ok THEN t ELSE EvOk(t.val, IndexOf(s, ")", t.pos) + 1)
                : t \in {evalExpression(s, skipSpaces(s, skipSpaces(s, c.pos) + 1), vars)} })
        ELSE
            Where({
                IF ~f.ok THEN f ELSE EvOk(f.val, skipSpaces(s, f.pos) + 1)
                : f \in {evalExpression(s, IndexOf(s, ",", skipSpaces(s, c.pos) + 1) + 1,
                                        vars)} })
        : c \in {evalExpression(s, skipSpaces(s, p), vars)} })

\* if(cond, a, b): the three arguments are evaluated in turn, then one is
\* selected
EvalIf(s, p, vars) ==
    Where({
        IF ~c.ok THEN c
        ELSE IF Ch(s, skipSpaces(s, c.pos)) # ","
        THEN EvFail(skipSpaces(s, c.pos), "Funcao if requer 3 argumentos separados por virgula")
        ELSE Where({
            IF ~t.ok THEN t
            ELSE IF Ch(s, skipSpaces(s, t.pos)) # ","
            THEN EvFail(skipSpaces(s, t.pos), "Funcao if requer 3 argumentos separados por virgula")
            ELSE Where({
                IF ~f.ok THEN f
                ELSE IF Ch(s, skipSpaces(s, f.pos)) # ")"
                THEN EvFail(skipSpaces(s, f.pos), "Parentese nao fechado na funcao if")
                ELSE EvOk(IF AboveEpsilon(c.val) THEN t.val ELSE f.val, skipSpaces(s, f.pos) + 1)
                : f \in {evalExpression(s, skipSpaces(s, skipSpaces(s, t.pos) + 1), vars)} })
            : t \in {evalExpression(s, skipSpaces(s, skipSpaces(s, c.pos) + 1), vars)} })
        : c \in {evalExpression(s, skipSpaces(s, p), vars)} })

\* pow: entered after the '(' that follows the name was consumed; the code
\* then requires a second '('
EvalPow(s, p, vars) ==
    IF Ch(s, skipSpaces(s, p)) # "("
    THEN EvFail(skipSpaces(s, p), "Funcao pow requer parentese")
    ELSE Where({
        IF ~b.ok THEN b
        ELSE IF Ch(s, skipSpaces(s, b.pos)) # ","
        THEN EvFail(skipSpaces(s, b.pos), "Funcao pow requer 2 argumentos separados por virgula")
        ELSE Where({
            IF ~e.ok THEN e
            ELSE IF Ch(s, skipSpaces(s, e.pos)) # ")"
            THEN EvFail(skipSpaces(s, e.pos), "Parentese nao fechado na funcao pow")
            ELSE IF ~pow(b.val, e.val).ok THEN EvFail(skipSpaces(s, e.pos) + 1, "libm")
            ELSE EvOk(pow(b.val, e.val).val, skipSpaces(s, e.pos) + 1)
            : e \in {evalExpression(s, skipSpaces(s, skipSpaces(s, b.pos) + 1), vars)} })
        : b \in {evalExpression(s, skipSpaces(s, skipSpaces(s, p) + 1), vars)} })

EvalCall(identifier, s, p, vars) ==
    IF identifier = "if" THEN EvalIf(s, p, vars)
    ELSE IF identifier = "pow" THEN EvalPow(s, p, vars)
    ELSE Where({
        IF ~a.ok THEN a
        ELSE IF Ch(s, skipSpaces(s, a.pos)) # ")"
        THEN EvFail(skipSpaces(s, a.pos), "Parentese nao fechado")
        ELSE ApplyFunction(identifier, a.val, skipSpaces(s, a.pos) + 1)
        : a \in {evalExpression(s, p, vars)} })

\* a loop over '*', '/' and '%' that divides without looking at the divisor
MulLoopUnchecked(s, p, result, vars) ==
    Where({
        IF Ch(s, q) \in {"*", "/", "%"} THEN
            Where({
                IF ~right.ok THEN right
                ELSE MulLoop(s, right.pos,
                             IF Ch(s, q) = "*" THEN RMul(result, right.val)
                             ELSE IF Ch(s, q) = "/" THEN RDiv(result, right.val)
                             ELSE RFmod(result, right.val), vars)
                : right \in {evalTerm(s, q + 1, vars)} })
        ELSE EvOk(result, q)
        : q \in {skipSpaces(s, p)} })

\* the loop over '*', '/' and '%': the right operand is a whole evalTerm
MulLoop(s, p, result, vars) ==
    Where({
        IF Ch(s, q) \in {"*", "/", "%"} THEN
            Where({
                IF ~right.ok THEN right
                ELSE IF Ch(s, q) = "/" /\ IsZero(right.val)
                THEN EvFail(right.pos, "Divisao por zero")
                ELSE MulLoop(s, right.pos,
                             IF Ch(s, q) = "*" THEN RMul(result, right.val)
                             ELSE IF Ch(s, q) = "/" THEN RDiv(result, right.val)
                             ELSE RFmod(result, right.val), vars)
                : right \in {evalTerm(s, q + 1, vars)} })
        ELSE EvOk(result, q)
        : q \in {skipSpaces(s, p)} })

\* the part of evalTerm after the operand: optional '^', then the loop
TermTail(s, p, result, vars) ==
    IF Ch(s, skipSpaces(s, p)) = "^" THEN
        Where({
            IF ~exponent.ok THEN exponent
            ELSE IF ~pow(result, exponent.val).ok THEN EvFail(exponent.pos, "libm")
            ELSE MulLoop(s, exponent.pos, pow(result, exponent.val).val, vars)
            : exponent \in {evalTerm(s, skipSpaces(s, p) + 1, vars)} })
    ELSE MulLoop(s, skipSpaces(s, p), result, vars)

evalTerm(s, p, vars) ==
    Where({
        IF isdigit(Ch(s, q)) \/ Ch(s, q) \in {".", "-", "+"} THEN
            Where({
                IF ~n.ok THEN EvFail(q, "Erro ao ler numero")
                ELSE TermTail(s, n.pos, n.val, vars)
                : n \in {parseNumber(s, q)} })
        ELSE IF Ch(s, q) = "(" THEN
            Where({
                IF ~e.ok THEN e
                ELSE IF Ch(s, skipSpaces(s, e.pos)) # ")"
                THEN EvFail(skipSpaces(s, e.pos), "Parentese nao fechado")
                ELSE TermTail(s, skipSpaces(s, e.pos) + 1, e.val, vars)
                : e \in {evalExpression(s, q + 1, vars)} })
        ELSE IF isalpha(Ch(s, q)) \/ Ch(s, q) = "_" THEN
            Where({
                \* a known variable returns at once: no '^', '*', '/', '%' follows
                IF FindVar(vars, id.name, 1) # 0
                THEN EvOk(vars[FindVar(vars, id.name, 1)].value, id.pos)
                ELSE IF Ch(s, skipSpaces(s, id.pos)) = "(" THEN
                    Where({
                        IF ~f.ok THEN f ELSE TermTail(s, f.pos, f.val, vars)
                        : f \in {EvalCall(id.name, s, skipSpaces(s, id.pos) + 1, vars)} })
                ELSE EvFail(skipSpaces(s, id.pos), "Variavel ou funcao desconhecida")
                : id \in {parseIdentifier(s, q)} })
        \* any other character: no operand is read and result stays 0.0
        ELSE TermTail(s, q, Num(0), vars)
        : q \in {skipSpaces(s, p)} })

\* the loop over '+' and '-'
AddLoop(s, p, left, vars) ==
    Where({
        IF Ch(s, q) \in {"+", "-"} THEN
            Where({
                IF ~right.ok THEN right
                ELSE AddLoop(s, right.pos,
                             IF Ch(s, q) = "+" THEN RAdd(left, right.val)
                             ELSE RSub(left, right.val), vars)
                : right \in {evalTerm(s, q + 1, vars)} })
        ELSE EvOk(left, q)
        : q \in {skipSpaces(s, p)} })

\* one side of a comparison: optional sign, a term, then the additive loop
Side(s, p, vars) ==
    Where({
        IF ~t.ok THEN t
        ELSE AddLoop(s, t.pos,
                     IF Ch(s, skipSpaces(s, p)) = "-" THEN RNeg(t.val) ELSE t.val, vars)
        : t \in {evalTerm(s, IF Ch(s, skipSpaces(s, p)) \in {"-", "+"}
                                THEN skipSpaces(s, p) + 1 ELSE skipSpaces(s, p), vars)} })

\* the value of a comparison: 1.0 or 0.0
Truth(b, p) == EvOk(IF b THEN Num(1) ELSE Num(0), p)

evalComparison(s, p, vars) ==
    Where({
        IF ~l.ok THEN l
        ELSE Where({
            IF Ch(s, q) \in {">", "<", "=", "!"} THEN
                Where({
                    IF ~r.ok THEN r
                    ELSE IF Ch(s, q) = ">" /\ Ch(s, q + 1) = "=" THEN Truth(RLe(r.val, l.val), r.pos)
                    ELSE IF Ch(s, q) = "<" /\ Ch(s, q + 1) = "=" THEN Truth(RLe(l.val, r.val), r.pos)
                    ELSE IF Ch(s, q) = "=" /\ Ch(s, q + 1) = "="
                    THEN Truth(BelowEpsilon(RSub(l.val, r.val)), r.pos)
                    ELSE IF Ch(s, q) = "!" /\ Ch(s, q + 1) = "="
                    THEN Truth(~IsNaN(RSub(l.val, r.val)) /\ ~BelowEpsilon(RSub(l.val, r.val)), r.pos)
                    ELSE IF Ch(s, q) = ">" THEN Truth(RLt(r.val, l.val), r.pos)
                    ELSE IF Ch(s, q) = "<" THEN Truth(RLt(l.val, r.val), r.pos)
                    ELSE EvFail(r.pos, "Operador de comparacao invalido")
                    : r \in {Side(s, IF Ch(s, q + 1) = "=" THEN q + 2 ELSE q + 1, vars)} })
            ELSE EvOk(l.val, q)
            : q \in {skipSpaces(s, l.pos)} })
        : l \in {Side(s, p, vars)} })

\* evaluateExpression(): the whole text must be consumed
evaluateExpression(expression, vars) ==
    Where({
        IF ~r.ok THEN r
        ELSE IF Ch(expression, skipSpaces(expression, r.pos)) # NUL
             THEN EvFail(r.pos, "Caracteres extras apos expressao")
        ELSE r
        : r \in {evalExpression(expression, 1, vars)} })

(***************************************************************************)
(* expression_parser.cpp: substituteDeviceValues                           *)
(***************************************************************************)
RECURSIVE IntToStr(_)
IntToStr(k) == IF k < 10 THEN DigitChar(k) ELSE IntToStr(k \div 10) \o DigitChar(k % 10)

\* k printed with exactly w digits (leading zeros)
RECURSIVE Padded(_, _)
Padded(k, w) == IF w = 0 THEN "" ELSE Padded(k \div 10, w - 1) \o DigitChar(k % 10)

\* long division: k more decimal digits of rem / d, as [val, rem]
RECURSIVE FracDigits(_, _, _)
FracDigits(rem, d, k) ==
    IF k = 0 THEN [val |-> 0, rem |-> rem]
    ELSE Where({ [val |-> r.val * 10 + (r.rem * 10) \div d, rem |-> (r.rem * 10) % d]
                 : r \in {FracDigits(rem, d, k - 1)} })

\* snprintf(valueStr, 32, "%.6f", value): six decimals, rounded to nearest
Printf6(v) ==
    IF IsNaN(v) THEN "nan"
    ELSE Where({ Where({
            (IF v.n < 0 THEN "-" ELSE "")
                \o IntToStr(IF f = 1000000 THEN Abs(v.n) \div v.d + 1 ELSE Abs(v.n) \div v.d)
                \o "." \o Padded(IF f = 1000000 THEN 0 ELSE f, 6)
            : f \in {IF 2 * fd.rem >= v.d THEN fd.val + 1 ELSE fd.val} })
            : fd \in {FracDigits(Abs(v.n) % v.d, v.d, 6)} })

\* the two loops that remove trailing zeros and then a trailing '.'
RECURSIVE StripZeros(_)
StripZeros(t) ==
    IF Len(t) > 0 /\ Ch(t, Len(t)) = "0" /\ IndexOf(t, ".", 1) # 0
    THEN StripZeros(SubSeq(t, 1, Len(t) - 1)) ELSE t

\* "%.6f" without trailing zeros and without a trailing point
FormatValue(v) ==
    Where({ IF Len(t) > 0 /\ Ch(t, Len(t)) = "." THEN SubSeq(t, 1, Len(t) - 1) ELSE t
            : t \in {StripZeros(Printf6(v))} })

\* size of processedExpression in performCalculations
OutputSize == 2048

SubOk(out) == [ok |-> TRUE, out |-> out, err |-> ""]
SubFail(msg) == [ok |-> FALSE, out |-> "", err |-> msg]

\* one placeholder; pos is the position after "{d["
\* d1: end of the device index, r1: end of the register index
Placeholder(expression, pos, dv) ==
    Where({ Where({ Where({
        IF Ch(expression, d1) # "]" THEN [ok |-> FALSE, err |-> "Erro: esperado ] apos indice do dispositivo"]
        ELSE IF Ch(expression, d1 + 1) # "[" THEN [ok |-> FALSE, err |-> "Erro: esperado [ apos indice do dispositivo"]
        ELSE IF Ch(expression, r1) # "]" THEN [ok |-> FALSE, err |-> "Erro: esperado ] apos indice do registro"]
        ELSE IF Ch(expression, r1 + 1) # "}" THEN [ok |-> FALSE, err |-> "Erro: esperado } apos d[i][j]"]
        ELSE IF ~(d1 > pos) \/ ~(r1 > d1 + 2) THEN [ok |-> FALSE, err |-> "Erro: indices invalidos"]
        ELSE IF deviceIndex < 0 \/ deviceIndex >= dv.deviceCount
             THEN [ok |-> FALSE, err |-> "Erro: indice de dispositivo invalido"]
        ELSE IF registerIndex < 0 \/ registerIndex >= dv.registerCounts[deviceIndex]
             THEN [ok |-> FALSE, err |-> "Erro: indice de registro invalido"]
        ELSE [ok |-> TRUE, err |-> "", pos |-> r1 + 2,
              text |-> FormatValue(dv.values[deviceIndex][registerIndex])]
        : registerIndex \in {DigitsValue(expression, d1 + 2, r1)} })
        : r1 \in {SkipDigits(expression, d1 + 2)},
          deviceIndex \in {DigitsValue(expression, pos, d1)} })
        : d1 \in {SkipDigits(expression, pos)} })

RECURSIVE SubstituteFrom(_, _, _, _)
SubstituteFrom(expression, pos, output, dv) ==
    IF Ch(expression, pos) = NUL THEN SubOk(output)
    ELSE IF Ch(expression, pos) = "{" THEN
        IF Ch(expression, pos + 1) = "d" /\ Ch(expression, pos + 2) = "[" THEN
            Where({
                IF ~ph.ok THEN SubFail(ph.err)
                ELSE IF Len(output) + Len(ph.text) >= OutputSize - 1
                     THEN SubFail("Erro: buffer de saida muito pequeno")
                ELSE SubstituteFrom(expression, ph.pos, output \o ph.text, dv)
                : ph \in {Placeholder(expression, pos + 3, dv)} })
        ELSE IF Len(output) >= OutputSize - 1 THEN SubFail("Erro: buffer de saida muito pequeno")
        ELSE SubstituteFrom(expression, pos + 1, output \o "{", dv)
    ELSE IF Len(output) >= OutputSize - 1 THEN SubFail("Erro: buffer de saida muito pequeno")
    ELSE SubstituteFrom(expression, pos + 1, output \o Ch(expression, pos), dv)

\* a substitution that copies the text as it is
CopyUnchanged(expression, dv, tempVariables, tempVarCount) == SubOk(expression)

\* The definition in expression_parser.cpp takes six parameters; the two
\* extra arguments performCalculations passes (the temporary variables) have
\* no parameter to bind to and no code that reads them.
substituteDeviceValues(expression, dv, tempVariables, tempVarCount) ==
    SubstituteFrom(expression, 1, "", dv)

(***************************************************************************)
(* expression_parser.cpp: parseAssignment                                  *)
(***************************************************************************)
\* a search that takes the first '=' whatever stands around it
FindEquals(expression, searchFrom) == IndexOf(expression, "=", searchFrom)

\* the strchr loop that looks for the '=' of an assignment; 0 when none
RECURSIVE FindAssignEquals(_, _)
FindAssignEquals(expression, searchFrom) ==
    Where({
        IF searchPos = 0 THEN 0
        ELSE IF searchPos > 1 /\ Ch(expression, searchPos - 1) \in {"=", "<", ">", "!"}
             THEN FindAssignEquals(expression, searchPos + 1)
        ELSE IF Ch(expression, searchPos + 1) = "="
             THEN FindAssignEquals(expression, searchPos + 2)
        ELSE searchPos
        : searchPos \in {IndexOf(expression, "=", searchFrom)} })

\* String::toInt() (atol): white space, sign, digits; 0 when no digit starts
toInt(t) ==
    Where({ IF Ch(t, SkipIsspace(t, 1)) = "-"
            THEN -DigitsValue(t, p1, SkipDigits(t, p1))
            ELSE DigitsValue(t, p1, SkipDigits(t, p1))
            : p1 \in {IF Ch(t, SkipIsspace(t, 1)) \in {"-", "+"}
                      THEN SkipIsspace(t, 1) + 1 ELSE SkipIsspace(t, 1)} })

MAX_EXPR_SIZE == 2048

\* AssignmentInfo.isVariableAssignment and .targetVariable are read by
\* performCalculations, but no source file declares or sets them.  They are
\* given the meaning the design documents: the target is a temporary variable
\* when the left-hand side is not a device placeholder, named by its first 5
\* characters.
IsVariableTarget(destStr) ==
    ~(Ch(destStr, 1) = "{" /\ Ch(destStr, 2) = "d" /\ Ch(destStr, 3) = "[")

AsgFail(msg) ==
    [ok |-> FALSE, hasAssignment |-> TRUE, isVariableAssignment |-> FALSE,
     targetVariable |-> "", targetDeviceIndex |-> -1, targetRegisterIndex |-> -1,
     expression |-> "", err |-> msg]

\* bracket1 .. bracket4 are positions in destStr (1-based, 0 when absent);
\* destStr starts with "{d[" where they are searched
parseAssignment(expression) ==
    Where({
        IF equalsPos = 0 THEN
            [ok |-> TRUE, hasAssignment |-> FALSE, isVariableAssignment |-> FALSE,
             targetVariable |-> "", targetDeviceIndex |-> -1, targetRegisterIndex |-> -1,
             expression |-> "", err |-> ""]
        ELSE Where({
            IF Len(destStr) < 6 \/ Ch(destStr, 1) # "{" \/ Ch(destStr, 2) # "d" \/ Ch(destStr, 3) # "["
            THEN AsgFail("Erro: destino deve ser no formato {d[device][register]}")
            ELSE Where({ Where({ Where({ Where({
                IF bracket1 = 0 \/ bracket2 = 0 THEN AsgFail("Erro: formato de destino invalido")
                ELSE IF bracket3 = 0 \/ bracket4 = 0 THEN AsgFail("Erro: formato de destino invalido")
                ELSE IF Len(expression) - exprStart + 1 = 0 THEN AsgFail("Erro: expressao vazia apos o =")
                ELSE IF Len(expression) - exprStart + 1 > MAX_EXPR_SIZE
                     THEN AsgFail("Erro: expressao muito grande")
                ELSE [ok |-> TRUE, hasAssignment |-> TRUE,
                      isVariableAssignment |-> IsVariableTarget(destStr),
                      targetVariable |-> SubSeq(destStr, 1, IF Len(destStr) < 5 THEN Len(destStr) ELSE 5),
                      targetDeviceIndex |-> toInt(SubSeq(destStr, bracket1 + 1, bracket2 - 1)),
                      targetRegisterIndex |-> toInt(SubSeq(destStr, bracket3 + 1, bracket4 - 1)),
                      expression |-> SubSeq(expression, exprStart, Len(expression)), err |-> ""]
                : bracket4 \in {IF bracket3 = 0 THEN 0 ELSE IndexOf(destStr, "]", bracket3)} })
                : bracket3 \in {IF bracket2 = 0 THEN 0 ELSE IndexOf(destStr, "[", bracket2)} })
                : bracket2 \in {IF bracket1 = 0 THEN 0 ELSE IndexOf(destStr, "]", bracket1)} })
                : bracket1 \in {IndexOf(destStr, "[", 3)},
                  exprStart \in {skipSpaces(expression, equalsPos + 1)} })
            : destStr \in {trim(SubSeq(expression, 1, equalsPos - 1))} })
        : equalsPos \in {FindAssignEquals(expression, 1)} })

(***************************************************************************)
(* config.h: the configuration records                                     *)
(***************************************************************************)
MAX_DEVICES == 10
MAX_REGISTERS_PER_DEVICE == 20

DevIdx == 0 .. (MAX_DEVICES - 1)
RegIdx == 0 .. (MAX_REGISTERS_PER_DEVICE - 1)

\* ModbusRegister (the fields the cycle and the handlers use)
Register(address, registerType, isOutput, readOnly, gain, offset, kalmanEnabled) ==
    [address |-> address, value |-> 0, isInput |-> TRUE, isOutput |-> isOutput,
     readOnly |-> readOnly, gain |-> gain, offset |-> offset,
     kalmanEnabled |-> kalmanEnabled, kalmanQ |-> Num(1), kalmanR |-> Num(1),
     registerType |-> registerType, registerCount |-> 1]

\* a register as resetConfig leaves it
DefaultRegister ==
    [Register(0, 2, FALSE, FALSE, Num(1), Num(0), FALSE)
        EXCEPT !.kalmanQ = Rat(1, 100), !.kalmanR = Rat(1, 10)]

\* ModbusDevice as resetConfig leaves it
DefaultDevice ==
    [slaveAddress |-> 0, enabled |-> FALSE, registerCount |-> 0,
     registers |-> [j \in RegIdx |-> DefaultRegister]]

\* a device with the given first registers (a sequence), the rest default
Device(slaveAddress, enabled, regs) ==
    [slaveAddress |-> slaveAddress, enabled |-> enabled, registerCount |-> Len(regs),
     registers |-> [j \in RegIdx |-> IF j < Len(regs) THEN regs[j + 1] ELSE DefaultRegister]]

\* SystemConfig: serial stands for the serial-line settings
SystemConfig(devs, calculationCode) ==
    [serial |-> 9600, deviceCount |-> Len(devs),
     devices |-> [i \in DevIdx |-> IF i < Len(devs) THEN devs[i + 1] ELSE DefaultDevice],
     calculationCode |-> calculationCode]

(***************************************************************************)
(* kalman_filter.cpp                                                       *)
(***************************************************************************)
KALMAN_Q_DEFAULT == Rat(1, 100)
KALMAN_R_DEFAULT == Rat(1, 10)

\* kalmanReset
KalmanResetState == [estimate |-> Num(0), errorCov |-> Num(1), initialized |-> FALSE]

\* kalmanFilter: [state, out]
kalmanFilter(state, measurement, Q0, R0) ==
    IF ~state.initialized
    THEN [state |-> [estimate |-> measurement, errorCov |-> Num(1), initialized |-> TRUE],
          out |-> measurement]
    ELSE Where({ Where({ Where({
            [state |-> [estimate |-> estimate,
                        errorCov |-> RMul(RSub(Num(1), kalmanGain), predErrorCov),
                        initialized |-> TRUE],
             out |-> estimate]
            : estimate \in {RAdd(state.estimate,
                                 RMul(kalmanGain, RSub(measurement, state.estimate)))} })
            : kalmanGain \in {RDiv(predErrorCov,
                                   RAdd(predErrorCov,
                                        IF RLe(R0, Num(0)) THEN KALMAN_R_DEFAULT ELSE R0))} })
            : predErrorCov \in {RAdd(state.errorCov,
                                     IF RLe(Q0, Num(0)) THEN KALMAN_Q_DEFAULT ELSE Q0)} })

(***************************************************************************)
(* calculations.cpp: performCalculations                                   *)
(***************************************************************************)
MAX_TEMP_VARS == 50

Success == "ku8MBSuccess"
Timeout == "ku8MBResponseTimedOut"

\* conversion of an out-of-range or NaN float to uint16_t is undefined
UndefinedUint16 == {0, 65535}

\* a processed value that is always computed from the cached raw value
ProcessedRaw(reg, kstate) == RAdd(RMul(Num(reg.value), reg.gain), reg.offset)

\* the processed value of a register in the snapshot built at the start of
\* the pass: the conversion of the estimate of the filter when the register
\* is smoothed and its filter initialized, of the cached raw value otherwise
ProcessedValue(reg, kstate) ==
    IF reg.kalmanEnabled /\ kstate.initialized
    THEN RAdd(RMul(kstate.estimate, reg.gain), reg.offset)
    ELSE RAdd(RMul(Num(reg.value), reg.gain), reg.offset)

BuildDeviceValues(cfg, kstates) ==
    [deviceCount |-> cfg.deviceCount,
     registerCounts |-> [i \in 0 .. (cfg.deviceCount - 1) |-> cfg.devices[i].registerCount],
     values |-> [i \in 0 .. (cfg.deviceCount - 1) |->
                    [j \in 0 .. (cfg.devices[i].registerCount - 1) |->
                        ProcessedValue(cfg.devices[i].registers[j], kstates[i][j])]]]

\* one console line of the pass
LogLine(lineNumber, kind, lineBuffer) ==
    [line |-> lineNumber, kind |-> kind, stmt |-> lineBuffer]

ErrorKinds ==
    {"parse_error", "substitution_error", "evaluation_error", "device_index_error",
     "register_index_error", "read_only_error", "gain_zero_error"}

\* one request on the Modbus line
BusOp(op, task, i, j, cfg, value) ==
    [op |-> op, task |-> task, dev |-> i, reg |-> j,
     slave |-> cfg.devices[i].slaveAddress,
     address |-> cfg.devices[i].registers[j].address, value |-> value]

\* the outcome of one statement: configuration, variable table, console lines
\* and bus requests it produces
Outcome(cfg, tempVariables, log, bus) ==
    [config |-> cfg, tempVariables |-> tempVariables, log |-> log, bus |-> bus]

\* a conversion that rounds to the nearest integer after the clamp
ClampRounded(v, ub) ==
    IF IsNaN(v) THEN ub
    ELSE IF RLt(v, Num(0)) THEN 0
    ELSE IF RLt(Num(65535), v) THEN 65535
    ELSE (2 * v.n + v.d) \div (2 * v.d)

\* float to uint16_t after the clamp to 0..65535
ClampUint16(v, ub) ==
    IF IsNaN(v) THEN ub
    ELSE IF RLt(v, Num(0)) THEN 0
    ELSE IF RLt(Num(65535), v) THEN 65535
    ELSE Trunc(v)

\* a failure that is not reported on the console
FailedSilently(cfg, tempVariables, lineNumber, kind, lineBuffer) ==
    Outcome(cfg, tempVariables, <<>>, <<>>)

\* a statement that fails: one console line, nothing else changes
Failed(cfg, tempVariables, lineNumber, kind, lineBuffer) ==
    Outcome(cfg, tempVariables, <<LogLine(lineNumber, kind, lineBuffer)>>, <<>>)

\* assignment to a temporary variable
AssignVariable(cfg, tempVariables, varName, result, lineNumber, lineBuffer) ==
    Where({
        IF k # 0 THEN
            Outcome(cfg, [tempVariables EXCEPT ![k] = [name |-> varName, value |-> result]],
                    <<LogLine(lineNumber, "temp_variable", lineBuffer)>>, <<>>)
        ELSE IF Len(tempVariables) < MAX_TEMP_VARS THEN
            Outcome(cfg, Append(tempVariables, [name |-> varName, value |-> result]),
                    <<LogLine(lineNumber, "temp_variable", lineBuffer)>>, <<>>)
        ELSE Outcome(cfg, tempVariables,
                     <<LogLine(lineNumber, "temp_variable_limit", lineBuffer),
                       LogLine(lineNumber, "temp_variable", lineBuffer)>>, <<>>)
        : k \in {FindVar(tempVariables, varName, 1)} })

\* an assignment to {d[i][j]} that does not look at readOnly
AssignRegisterUnprotected(cfg, tempVariables, i, j, result, lineNumber, lineBuffer, writeResult, ub) ==
    IF i < 0 \/ i >= cfg.deviceCount
    THEN Failed(cfg, tempVariables, lineNumber, "device_index_error", lineBuffer)
    ELSE IF j < 0 \/ j >= cfg.devices[i].registerCount
    THEN Failed(cfg, tempVariables, lineNumber, "register_index_error", lineBuffer)
    ELSE IF IsZero(cfg.devices[i].registers[j].gain)
    THEN Failed(cfg, tempVariables, lineNumber, "gain_zero_error", lineBuffer)
    ELSE Where({
        Outcome([cfg EXCEPT !.devices[i].registers[j].value = value], tempVariables,
                <<LogLine(lineNumber,
                          IF writeResult = Success THEN "assignment_done"
                          ELSE "modbus_write_error", lineBuffer)>>,
                <<BusOp("write", "loopTask", i, j, cfg, value)>>)
        : value \in {ClampUint16(RDiv(RSub(result, cfg.devices[i].registers[j].offset),
                                      cfg.devices[i].registers[j].gain), ub)} })

\* assignment to {d[i][j]}: validation, inverse conversion, cache and bus write
AssignRegister(cfg, tempVariables, i, j, result, lineNumber, lineBuffer, writeResult, ub) ==
    IF i < 0 \/ i >= cfg.deviceCount
    THEN Failed(cfg, tempVariables, lineNumber, "device_index_error", lineBuffer)
    ELSE IF j < 0 \/ j >= cfg.devices[i].registerCount
    THEN Failed(cfg, tempVariables, lineNumber, "register_index_error", lineBuffer)
    ELSE IF cfg.devices[i].registers[j].readOnly
    THEN Failed(cfg, tempVariables, lineNumber, "read_only_error", lineBuffer)
    ELSE IF IsZero(cfg.devices[i].registers[j].gain)
    THEN Failed(cfg, tempVariables, lineNumber, "gain_zero_error", lineBuffer)
    ELSE Where({
        Outcome([cfg EXCEPT !.devices[i].registers[j].value = value], tempVariables,
                <<LogLine(lineNumber,
                          IF writeResult = Success THEN "assignment_done"
                          ELSE "modbus_write_error", lineBuffer)>>,
                <<BusOp("write", "loopTask", i, j, cfg, value)>>)
        : value \in {ClampUint16(RDiv(RSub(result, cfg.devices[i].registers[j].offset),
                                      cfg.devices[i].registers[j].gain), ub)} })

\* the first register the fallback for a statement without assignment selects:
\* <<i, j>>, or <<>> when there is none
RECURSIVE FirstOutput(_, _, _)
FirstOutput(cfg, i, j) ==
    IF i >= cfg.deviceCount THEN <<>>
    ELSE IF ~cfg.devices[i].enabled \/ j >= cfg.devices[i].registerCount
         THEN FirstOutput(cfg, i + 1, 0)
    ELSE IF cfg.devices[i].registers[j].isOutput /\ ~cfg.devices[i].registers[j].readOnly
         THEN <<i, j>>
    ELSE FirstOutput(cfg, i, j + 1)

\* a statement without assignment
LegacyFallback(cfg, tempVariables, result, lineNumber, lineBuffer, ub) ==
    Where({
        IF t = <<>> THEN
            Outcome(cfg, tempVariables,
                    <<LogLine(lineNumber, "no_output_register", lineBuffer)>>, <<>>)
        ELSE Outcome([cfg EXCEPT !.devices[t[1]].registers[t[2]].value = ClampUint16(result, ub)],
                     tempVariables,
                     <<LogLine(lineNumber, "calculation_done", lineBuffer)>>, <<>>)
        : t \in {FirstOutput(cfg, 0, 0)} })

\* a line loop that substitutes the values the registers have now, not the snapshot
ExecuteStatementLive(cfg, dv, tempVariables, lineBuffer, lineNumber, writeResult, ub) ==
    Where({
        IF ~assignmentInfo.ok
        THEN Failed(cfg, tempVariables, lineNumber, "parse_error", lineBuffer)
        ELSE Where({
            IF ~sub.ok
            THEN Failed(cfg, tempVariables, lineNumber, "substitution_error", lineBuffer)
            ELSE Where({
                IF ~ev.ok
                THEN Failed(cfg, tempVariables, lineNumber, "evaluation_error", lineBuffer)
                ELSE IF assignmentInfo.hasAssignment THEN
                    IF assignmentInfo.isVariableAssignment
                    THEN AssignVariable(cfg, tempVariables, assignmentInfo.targetVariable,
                                        ev.val, lineNumber, lineBuffer)
                    ELSE AssignRegister(cfg, tempVariables, assignmentInfo.targetDeviceIndex,
                                        assignmentInfo.targetRegisterIndex, ev.val,
                                        lineNumber, lineBuffer, writeResult, ub)
                ELSE LegacyFallback(cfg, tempVariables, ev.val, lineNumber, lineBuffer, ub)
                : ev \in {evaluateExpression(sub.out, <<>>)} })
            : sub \in {substituteDeviceValues(
                          IF assignmentInfo.hasAssignment
                          THEN assignmentInfo.expression ELSE lineBuffer,
                          BuildDeviceValues(cfg, [i \in DevIdx |->
                                                    [j \in RegIdx |-> KalmanResetState]]),
                          tempVariables, Len(tempVariables))} })
        : assignmentInfo \in {parseAssignment(lineBuffer)} })

\* the body of the line loop for one non-blank, non-comment line
ExecuteStatement(cfg, dv, tempVariables, lineBuffer, lineNumber, writeResult, ub) ==
    Where({
        IF ~assignmentInfo.ok
        THEN Failed(cfg, tempVariables, lineNumber, "parse_error", lineBuffer)
        ELSE Where({
            IF ~sub.ok
            THEN Failed(cfg, tempVariables, lineNumber, "substitution_error", lineBuffer)
            ELSE Where({
                IF ~ev.ok
                THEN Failed(cfg, tempVariables, lineNumber, "evaluation_error", lineBuffer)
                ELSE IF assignmentInfo.hasAssignment THEN
                    IF assignmentInfo.isVariableAssignment
                    THEN AssignVariable(cfg, tempVariables, assignmentInfo.targetVariable,
                                        ev.val, lineNumber, lineBuffer)
                    ELSE AssignRegister(cfg, tempVariables, assignmentInfo.targetDeviceIndex,
                                        assignmentInfo.targetRegisterIndex, ev.val,
                                        lineNumber, lineBuffer, writeResult, ub)
                ELSE LegacyFallback(cfg, tempVariables, ev.val, lineNumber, lineBuffer, ub)
                : ev \in {evaluateExpression(sub.out, <<>>)} })
            : sub \in {substituteDeviceValues(
                          IF assignmentInfo.hasAssignment
                          THEN assignmentInfo.expression ELSE lineBuffer,
                          dv, tempVariables, Len(tempVariables))} })
        : assignmentInfo \in {parseAssignment(lineBuffer)} })

\* the line the loop takes at startPos (0-based): [line, next]
NextLine(codeStr, startPos) ==
    Where({ [line |-> trim(SubSeq(codeStr, startPos + 1, endPos)), next |-> endPos + 1]
            : endPos \in {IF IndexOf(codeStr, "\n", startPos + 1) = 0 THEN Len(codeStr)
                          ELSE IndexOf(codeStr, "\n", startPos + 1) - 1} })

\* lines the loop skips: empty, or comments starting with #
IsSkipped(line) == Len(line) = 0 \/ Ch(line, 1) = "#"

(***************************************************************************)
(* modbus_handler.cpp: readAllDevices and writeOutputRegisters             *)
(***************************************************************************)
ShouldRead(reg) ==
    IF reg.registerType = 0 /\ reg.isOutput THEN FALSE
    ELSE IF reg.registerType = 0 /\ ~reg.isOutput /\ ~reg.readOnly /\ reg.isInput THEN TRUE
    ELSE reg.registerType \in {0, 2}

ShouldWrite(reg) ==
    IF reg.registerType = 0 THEN reg.isOutput /\ ~reg.readOnly
    ELSE reg.registerType \in {1, 2}

\* (uint16_t)round(x) for a non-negative x
RoundUint16(x) == (2 * x.n + x.d) \div (2 * x.d)

\* a read that zeroes the cached value and resets the filter when the slave
\* does not answer with success
ReadRegisterZeroes(st, task, i, j, outcome) ==
    Where({
        IF ~ShouldRead(reg) THEN st
        ELSE IF outcome.result # Success
             THEN [config |-> [st.config EXCEPT !.devices[i].registers[j].value = 0],
                   kalmanStates |-> [st.kalmanStates EXCEPT ![i][j] = KalmanResetState],
                   bus |-> Append(st.bus, BusOp("read", task, i, j, st.config, 0))]
        ELSE IF reg.kalmanEnabled THEN
            Where({
                [config |-> [st.config EXCEPT !.devices[i].registers[j].value =
                                                    RoundUint16(k.out)],
                 kalmanStates |-> [st.kalmanStates EXCEPT ![i][j] = k.state],
                 bus |-> Append(st.bus, BusOp("read", task, i, j, st.config, 0))]
                : k \in {kalmanFilter(st.kalmanStates[i][j], Num(outcome.value),
                                      reg.kalmanQ, reg.kalmanR)} })
        ELSE [config |-> [st.config EXCEPT !.devices[i].registers[j].value = outcome.value],
              kalmanStates |-> [st.kalmanStates EXCEPT ![i][j] =
                                    IF @.initialized THEN KalmanResetState ELSE @],
              bus |-> Append(st.bus, BusOp("read", task, i, j, st.config, 0))]
        : reg \in {st.config.devices[i].registers[j]} })

\* one register of the read loop; st is the state the loop threads through the
\* registers: [config, kalmanStates, bus]
ReadRegister(st, task, i, j, outcome) ==
    Where({
        IF ~ShouldRead(reg) THEN st
        ELSE IF outcome.result # Success
             THEN [st EXCEPT !.bus = Append(@, BusOp("read", task, i, j, st.config, 0))]
        ELSE IF reg.kalmanEnabled THEN
            Where({
                [config |-> [st.config EXCEPT !.devices[i].registers[j].value =
                                                    RoundUint16(k.out)],
                 kalmanStates |-> [st.kalmanStates EXCEPT ![i][j] = k.state],
                 bus |-> Append(st.bus, BusOp("read", task, i, j, st.config, 0))]
                : k \in {kalmanFilter(st.kalmanStates[i][j], Num(outcome.value),
                                      reg.kalmanQ, reg.kalmanR)} })
        ELSE [config |-> [st.config EXCEPT !.devices[i].registers[j].value = outcome.value],
              kalmanStates |-> [st.kalmanStates EXCEPT ![i][j] =
                                    IF @.initialized THEN KalmanResetState ELSE @],
              bus |-> Append(st.bus, BusOp("read", task, i, j, st.config, 0))]
        : reg \in {st.config.devices[i].registers[j]} })

\* registers j, j+1, ... of device i
RECURSIVE ReadRegisters(_, _, _, _, _)
ReadRegisters(st, task, i, j, outcomes) ==
    IF j >= st.config.devices[i].registerCount THEN st
    ELSE ReadRegisters(ReadRegister(st, task, i, j, outcomes[j]), task, i, j + 1, outcomes)

\* one iteration of the device loop of readAllDevices
ReadOneDevice(st, task, i, outcomes) ==
    IF ~st.config.devices[i].enabled THEN st
    ELSE ReadRegisters(st, task, i, 0, outcomes)

\* registers j, j+1, ... of device i in writeOutputRegisters: the bus requests
RECURSIVE WriteRegisters(_, _, _, _, _)
WriteRegisters(cfg, ops, task, i, j) ==
    IF j >= cfg.devices[i].registerCount THEN ops
    ELSE IF ~ShouldWrite(cfg.devices[i].registers[j]) THEN WriteRegisters(cfg, ops, task, i, j + 1)
    ELSE WriteRegisters(cfg,
                        Append(ops, BusOp("write", task, i, j, cfg,
                                          cfg.devices[i].registers[j].value)),
                        task, i, j + 1)

\* one iteration of the device loop of writeOutputRegisters
WriteOneDevice(cfg, ops, task, i) ==
    IF ~cfg.devices[i].enabled THEN ops
    ELSE WriteRegisters(cfg, ops, task, i, 0)

(***************************************************************************)
(* The firmware as a state machine                                         *)
(***************************************************************************)
VARIABLES
    config,             \* SystemConfig config (config.cpp)
    flash,              \* the configuration persisted by saveConfig
    kalmanStates,       \* kalmanStates[MAX_DEVICES][MAX_REGISTERS_PER_DEVICE]
    g_configMutex,      \* the recursive mutex: owner and hold count
    g_processingPaused,
    g_cycleInProgress,
    pc,                 \* position of each task
    stack,              \* return positions of the calls each task is in
    ret,                \* the value the last call of each task returned
    idx,                \* device loop index i of each task
    pass,               \* locals of performCalculations
    req,                \* the request the web task is serving
    bus,                \* requests sent on the Modbus line since the cycle began
    console,            \* console lines of the current pass
    cycles,             \* cycles started
    requests,           \* web requests started
    syncs               \* NTP synchronisations started

vars == <<config, flash, kalmanStates, g_configMutex, g_processingPaused,
          g_cycleInProgress, pc, stack, ret, idx, pass, req, bus, console, cycles, requests, syncs>>

LoopTask == "loopTask"
WebTask  == "async_tcp"
Tasks    == {LoopTask, WebTask}

MaxCycles == 1
MaxRequests == 1
MaxSyncs == 1

\* what a slave can answer to a read
ReadOutcomes == {[result |-> Timeout, value |-> 0], [result |-> Success, value |-> 7]}


\* a request body: kind says how far the handlers get with it, doc is the
\* configuration the JSON document describes
\*   "malformed"  does not start with { and end with }
\*   "invalid"    deserializeJson fails
\*   "no_devices" a JSON object without a "devices" array
\*   "full"       a complete configuration
JsonBody(kind, doc) == [kind |-> kind, doc |-> doc]

\* the JSON document of a configuration, as saveConfig serialises it: the
\* first deviceCount devices with their first registerCount registers; the
\* cached register values are not part of it
JsonDocument(cfg) ==
    [serial |-> cfg.serial, deviceCount |-> cfg.deviceCount,
     calculationCode |-> cfg.calculationCode,
     devices |-> [i \in 1 .. cfg.deviceCount |->
                    [slaveAddress |-> cfg.devices[i - 1].slaveAddress,
                     enabled |-> cfg.devices[i - 1].enabled,
                     registers |-> [j \in 1 .. cfg.devices[i - 1].registerCount |->
                        [cfg.devices[i - 1].registers[j - 1] EXCEPT !.value = 0]]]]]

NoBody == JsonBody("none", JsonDocument(SystemConfig(<<>>, "")))

\* the parameters of a manual write (POST /api/variable/write)
WriteBody(deviceIndex, registerIndex, value) ==
    [deviceIndex |-> deviceIndex, registerIndex |-> registerIndex, value |-> value]
NoWrite == WriteBody(-1, -1, Num(0))

\* the request the web task is serving or served last: held is the hold count
\* of the task when the handler was entered, status the HTTP status sent
\* (0: none yet), retried says that the same request was answered 503 just before
NoRequest ==
    [handler |-> "none", body |-> NoBody, write |-> NoWrite, status |-> 0, held |-> 0,
     retried |-> FALSE]

\* the hold count of task t on the guard
Hold(t) == IF g_configMutex.owner = t THEN g_configMutex.count ELSE 0

(***************************************************************************)
(* main.cpp: loop(), the read / calculate / write cycle                    *)
(***************************************************************************)
LoopStartCycle ==
    /\ pc[LoopTask] = "idle"
    /\ cycles < MaxCycles
    /\ cycles' = cycles + 1
    /\ pc' = [pc EXCEPT ![LoopTask] = "readAllDevices"]
    /\ idx' = [idx EXCEPT ![LoopTask] = 0]
    /\ bus' = <<>>
    /\ console' = <<>>
    /\ UNCHANGED <<config, flash, kalmanStates, g_configMutex, g_processingPaused,
                   g_cycleInProgress, stack, ret, pass, req, requests, syncs>>

\* one iteration of the device loop of readAllDevices, run by task t
ReadDevice(t) ==
    /\ pc[t] = "readAllDevices"
    /\ idx[t] < config.deviceCount
    /\ \E outcomes \in [0 .. (config.devices[idx[t]].registerCount - 1) -> ReadOutcomes] :
          \E st \in {ReadOneDevice([config |-> config, kalmanStates |-> kalmanStates,
                                    bus |-> bus], t, idx[t], outcomes)} :
              /\ config' = st.config
              /\ kalmanStates' = st.kalmanStates
              /\ bus' = st.bus
    /\ idx' = [idx EXCEPT ![t] = @ + 1]
    /\ UNCHANGED <<flash, g_configMutex, g_processingPaused, g_cycleInProgress,
                   pc, stack, ret, pass, req, console, cycles, requests, syncs>>

\* readAllDevices returns to its caller
ReadReturn(t) ==
    /\ pc[t] = "readAllDevices"
    /\ idx[t] >= config.deviceCount
    /\ pc' = [pc EXCEPT ![t] = IF t = LoopTask THEN "performCalculations" ELSE "readDone"]
    /\ UNCHANGED <<config, flash, kalmanStates, g_configMutex, g_processingPaused,
                   g_cycleInProgress, stack, ret, idx, pass, req, bus, console, cycles, requests, syncs>>

\* performCalculations up to the line loop: the snapshot and the empty table
BeginCalculations ==
    /\ pc[LoopTask] = "performCalculations"
    /\ IF Len(config.calculationCode) = 0
       THEN /\ pc' = [pc EXCEPT ![LoopTask] = "writeOutputRegisters"]
            /\ idx' = [idx EXCEPT ![LoopTask] = 0]
            /\ pass' = pass
       ELSE /\ pc' = [pc EXCEPT ![LoopTask] = "lineLoop"]
            /\ idx' = idx
            /\ pass' = [deviceValues |-> BuildDeviceValues(config, kalmanStates),
                        tempVariables |-> <<>>, startPos |-> 0, lineNumber |-> 1]
    /\ console' = <<>>
    /\ UNCHANGED <<config, flash, kalmanStates, g_configMutex, g_processingPaused,
                   g_cycleInProgress, stack, ret, req, bus, cycles, requests, syncs>>

\* an iteration of the line loop that skips a blank line or a comment
SkipLine ==
    /\ pc[LoopTask] = "lineLoop"
    /\ pass.startPos < Len(config.calculationCode)
    /\ \E nl \in {NextLine(config.calculationCode, pass.startPos)} :
           /\ IsSkipped(nl.line)
           /\ pass' = [pass EXCEPT !.startPos = nl.next]
    /\ UNCHANGED <<config, flash, kalmanStates, g_configMutex, g_processingPaused,
                   g_cycleInProgress, pc, stack, ret, idx, req, bus, console, cycles, requests, syncs>>

\* an iteration of the line loop that executes a statement
ProcessLine ==
    /\ pc[LoopTask] = "lineLoop"
    /\ pass.startPos < Len(config.calculationCode)
    /\ \E nl \in {NextLine(config.calculationCode, pass.startPos)} :
           /\ ~IsSkipped(nl.line)
           /\ \E writeResult \in {Success, Timeout}, ub \in UndefinedUint16 :
                 \E out \in {ExecuteStatement(config, pass.deviceValues, pass.tempVariables,
                                              nl.line, pass.lineNumber, writeResult, ub)} :
                     /\ config' = out.config
                     /\ pass' = [pass EXCEPT !.tempVariables = out.tempVariables,
                                             !.startPos = nl.next,
                                             !.lineNumber = @ + 1]
                     /\ console' = console \o out.log
                     /\ bus' = bus \o out.bus
    /\ UNCHANGED <<flash, kalmanStates, g_configMutex, g_processingPaused,
                   g_cycleInProgress, pc, stack, ret, idx, req, cycles, requests, syncs>>

\* the line loop ends and performCalculations returns
EndCalculations ==
    /\ pc[LoopTask] = "lineLoop"
    /\ pass.startPos >= Len(config.calculationCode)
    /\ pc' = [pc EXCEPT ![LoopTask] = "writeOutputRegisters"]
    /\ idx' = [idx EXCEPT ![LoopTask] = 0]
    /\ UNCHANGED <<config, flash, kalmanStates, g_configMutex, g_processingPaused,
                   g_cycleInProgress, stack, ret, pass, req, bus, console, cycles, requests, syncs>>

\* one iteration of the device loop of writeOutputRegisters
WriteDevice ==
    /\ pc[LoopTask] = "writeOutputRegisters"
    /\ idx[LoopTask] < config.deviceCount
    /\ bus' = WriteOneDevice(config, bus, LoopTask, idx[LoopTask])
    /\ idx' = [idx EXCEPT ![LoopTask] = @ + 1]
    /\ UNCHANGED <<config, flash, kalmanStates, g_configMutex, g_processingPaused,
                   g_cycleInProgress, pc, stack, ret, pass, req, console, cycles, requests, syncs>>

\* writeOutputRegisters returns and the cycle is over
EndCycle ==
    /\ pc[LoopTask] = "writeOutputRegisters"
    /\ idx[LoopTask] >= config.deviceCount
    /\ pc' = [pc EXCEPT ![LoopTask] = "idle"]
    /\ UNCHANGED <<config, flash, kalmanStates, g_configMutex, g_processingPaused,
                   g_cycleInProgress, stack, ret, idx, pass, req, bus, console, cycles, requests, syncs>>

Cycle ==
    \/ LoopStartCycle
    \/ ReadDevice(LoopTask)
    \/ ReadReturn(LoopTask)
    \/ BeginCalculations
    \/ SkipLine
    \/ ProcessLine
    \/ EndCalculations
    \/ WriteDevice
    \/ EndCycle

(***************************************************************************)
(* config.cpp: the guard                                                   *)
(***************************************************************************)
\* xSemaphoreTakeRecursive can succeed for task t
CanTake(t) == g_configMutex.owner \in {"none", t}

\* the guard after lockConfig succeeded for task t
Taken(t) == [owner |-> t, count |-> Hold(t) + 1]

\* a give that frees the guard whatever the hold count
GivenAtOnce(t) ==
    IF g_configMutex.owner # t THEN g_configMutex
    ELSE [owner |-> "none", count |-> 0]

\* the guard after unlockConfig by task t (a give by a task that does not
\* hold the guard fails and changes nothing)
Given(t) ==
    IF g_configMutex.owner # t THEN g_configMutex
    ELSE IF g_configMutex.count = 1 THEN [owner |-> "none", count |-> 0]
    ELSE [owner |-> t, count |-> g_configMutex.count - 1]

(***************************************************************************)
(* config_storage.cpp: saveConfig and resetConfig                          *)
(***************************************************************************)
\* what saveConfig writes to the flash
Persisted(cfg) == [present |-> TRUE, data |-> JsonDocument(cfg)]

\* task t calls f and will continue at position after
Call(t, f, after) ==
    /\ pc' = [pc EXCEPT ![t] = f]
    /\ stack' = [stack EXCEPT ![t] = <<after>> \o @]

\* the call task t is in returns value
Return(t, value) ==
    /\ pc' = [pc EXCEPT ![t] = Head(stack[t])]
    /\ stack' = [stack EXCEPT ![t] = Tail(@)]
    /\ ret' = [ret EXCEPT ![t] = value]

\* saveConfig: lockConfig(portMAX_DELAY)
SaveConfigLock(t) ==
    /\ pc[t] = "saveConfig"
    /\ CanTake(t)
    /\ g_configMutex' = Taken(t)
    /\ pc' = [pc EXCEPT ![t] = "saveConfig_write"]
    /\ UNCHANGED <<config, flash, kalmanStates, g_processingPaused, g_cycleInProgress,
                   stack, ret, idx, pass, req, bus, console, cycles, requests, syncs>>

\* saveConfig: serialise, putString, unlockConfig, return
SaveConfigWrite(t) ==
    /\ pc[t] = "saveConfig_write"
    /\ \E saved \in BOOLEAN :
          /\ flash' = IF saved THEN Persisted(config) ELSE flash
          /\ Return(t, saved)
    /\ g_configMutex' = Given(t)
    /\ UNCHANGED <<config, kalmanStates, g_processingPaused, g_cycleInProgress,
                   idx, pass, req, bus, console, cycles, requests, syncs>>

\* resetConfig up to its call of saveConfig
ResetConfigEnter(t) ==
    /\ pc[t] = "resetConfig"
    /\ CanTake(t)
    /\ g_configMutex' = Taken(t)
    /\ flash' = [flash EXCEPT !.present = FALSE]
    /\ config' = SystemConfig(<<>>, "")
    /\ Call(t, "saveConfig", "resetConfig_return")
    /\ UNCHANGED <<kalmanStates, g_processingPaused, g_cycleInProgress,
                   ret, idx, pass, req, bus, console, cycles, requests, syncs>>

\* resetConfig after saveConfig: unlockConfig and return what saveConfig returned
ResetConfigReturn(t) ==
    /\ pc[t] = "resetConfig_return"
    /\ g_configMutex' = Given(t)
    /\ Return(t, ret[t])
    /\ UNCHANGED <<config, flash, kalmanStates, g_processingPaused, g_cycleInProgress,
                   idx, pass, req, bus, console, cycles, requests, syncs>>

\* rtc_manager.cpp: a successful NTP synchronisation in loop() saves the configuration
LoopSyncNTP ==
    /\ pc[LoopTask] = "idle"
    /\ syncs < MaxSyncs
    /\ syncs' = syncs + 1
    /\ Call(LoopTask, "saveConfig", "idle")
    /\ UNCHANGED <<config, flash, kalmanStates, g_configMutex, g_processingPaused,
                   g_cycleInProgress, ret, idx, pass, req, bus, console, cycles, requests>>

(***************************************************************************)
(* web_server.cpp: the handlers, run by the web task                       *)
(***************************************************************************)
AdminHandlers == {"handleSaveConfig", "handleImportConfig", "handleResetConfig"}

\* the web task starts serving a request; the client may repeat a request that
\* was answered 503
StartRequest(handler, body, write, status) ==
    /\ pc[WebTask] = "idle"
    /\ \E retry \in {req.status = 503 /\ req.handler = handler /\ req.body = body} :
           /\ retry \/ requests < MaxRequests
           /\ requests' = IF retry THEN requests ELSE requests + 1
           /\ req' = [handler |-> handler, body |-> body, write |-> write,
                      status |-> status, held |-> Hold(WebTask), retried |-> retry]

\* the handler sends its response and returns
Respond(status) ==
    /\ req' = [req EXCEPT !.status = status]
    /\ pc' = [pc EXCEPT ![WebTask] = "idle"]

\* the fields the save and import handlers write before they look for "devices"
ApplyHeader(cfg, doc) ==
    [cfg EXCEPT !.serial = doc.serial,
                !.calculationCode = doc.calculationCode,
                !.deviceCount = IF doc.deviceCount > MAX_DEVICES THEN MAX_DEVICES
                               ELSE doc.deviceCount]

\* the device loop of the save and import handlers
ApplyDevices(cfg, doc) ==
    [cfg EXCEPT !.devices =
        [i \in DevIdx |->
            IF i >= cfg.deviceCount \/ i >= Len(doc.devices) THEN cfg.devices[i]
            ELSE Where({
                    [slaveAddress |-> doc.devices[i + 1].slaveAddress,
                     enabled |-> doc.devices[i + 1].enabled,
                     registerCount |-> registerCount,
                     registers |-> [j \in RegIdx |->
                         IF j < registerCount
                         THEN [doc.devices[i + 1].registers[j + 1] EXCEPT !.value = 0]
                         ELSE cfg.devices[i].registers[j]]]
                    : registerCount \in
                        {IF Len(doc.devices[i + 1].registers) > MAX_REGISTERS_PER_DEVICE
                         THEN MAX_REGISTERS_PER_DEVICE
                         ELSE Len(doc.devices[i + 1].registers)} })]]

\* an admin handler that goes to its wait without setting the pause flag
AdminEnterUnpaused(handler, body, rejected) ==
    /\ IF rejected
       THEN /\ StartRequest(handler, body, NoWrite, 400)
            /\ pc' = pc
       ELSE /\ StartRequest(handler, body, NoWrite, 0)
            /\ pc' = [pc EXCEPT ![WebTask] = "admin_wait"]
    /\ UNCHANGED <<config, flash, kalmanStates, g_configMutex, g_processingPaused,
                   g_cycleInProgress, stack, ret, idx, pass, bus, console, cycles, syncs>>

\* an admin handler from its entry to the wait for the cycle: rejected says
\* that the handler answers 400 before it touches the pause flag
AdminEnter(handler, body, rejected) ==
    /\ IF rejected
       THEN /\ StartRequest(handler, body, NoWrite, 400)
            /\ pc' = pc
            /\ g_processingPaused' = g_processingPaused
       ELSE /\ StartRequest(handler, body, NoWrite, 0)
            /\ pc' = [pc EXCEPT ![WebTask] = "admin_wait"]
            /\ g_processingPaused' = TRUE
    /\ UNCHANGED <<config, flash, kalmanStates, g_configMutex, g_cycleInProgress,
                   stack, ret, idx, pass, bus, console, cycles, syncs>>

HandleSaveConfig(body) ==
    AdminEnter("handleSaveConfig", body, body.kind \in {"empty", "malformed"})

HandleImportConfig(body) ==
    AdminEnter("handleImportConfig", body, body.kind = "empty")

HandleResetConfig ==
    AdminEnter("handleResetConfig", NoBody, FALSE)

\* the loop that waits while g_cycleInProgress, for 2 s at most, is left
AdminWait ==
    /\ pc[WebTask] = "admin_wait"
    /\ pc' = [pc EXCEPT ![WebTask] = "admin_lock"]
    /\ UNCHANGED <<config, flash, kalmanStates, g_configMutex, g_processingPaused,
                   g_cycleInProgress, stack, ret, idx, pass, req, bus, console,
                   cycles, requests, syncs>>

\* lockConfig(pdMS_TO_TICKS(100)) succeeds
AdminLock ==
    /\ pc[WebTask] = "admin_lock"
    /\ CanTake(WebTask)
    /\ g_configMutex' = Taken(WebTask)
    /\ pc' = [pc EXCEPT ![WebTask] = "admin_locked"]
    /\ UNCHANGED <<config, flash, kalmanStates, g_processingPaused,
                   g_cycleInProgress, stack, ret, idx, pass, req, bus, console,
                   cycles, requests, syncs>>

\* a busy path that answers 503 but forgets the pause flag
AdminBusyKeepsPause ==
    /\ pc[WebTask] = "admin_lock"
    /\ ~CanTake(WebTask)
    /\ Respond(503)
    /\ UNCHANGED <<config, flash, kalmanStates, g_configMutex, g_processingPaused,
                   g_cycleInProgress, stack, ret, idx, pass, bus, console,
                   cycles, requests, syncs>>

\* a lockConfig without timeout: the handler stays where it is
AdminKeepsWaiting ==
    /\ pc[WebTask] = "admin_lock"
    /\ ~CanTake(WebTask)
    /\ UNCHANGED vars

\* lockConfig(pdMS_TO_TICKS(100)) times out: another task held the guard for 100 ms
AdminBusy ==
    /\ pc[WebTask] = "admin_lock"
    /\ ~CanTake(WebTask)
    /\ g_processingPaused' = FALSE
    /\ Respond(503)
    /\ UNCHANGED <<config, flash, kalmanStates, g_configMutex,
                   g_cycleInProgress, stack, ret, idx, pass, bus, console,
                   cycles, requests, syncs>>

\* the save and import handlers from deserializeJson to the call of saveConfig
AdminBody ==
    /\ pc[WebTask] = "admin_locked"
    /\ req.handler \in {"handleSaveConfig", "handleImportConfig"}
    /\ IF req.body.kind \in {"invalid", "malformed"} THEN
            /\ Respond(400)
            /\ g_configMutex' = Given(WebTask)
            /\ g_processingPaused' = FALSE
            /\ UNCHANGED <<config, stack>>
       ELSE IF req.body.kind = "no_devices" THEN
            /\ config' = ApplyHeader(config, req.body.doc)
            /\ Respond(400)
            /\ UNCHANGED <<g_configMutex, g_processingPaused, stack>>
       ELSE /\ config' = ApplyDevices(ApplyHeader(config, req.body.doc), req.body.doc)
            /\ Call(WebTask, "saveConfig", "admin_done")
            /\ UNCHANGED <<g_configMutex, g_processingPaused, req>>
    /\ UNCHANGED <<flash, kalmanStates, g_cycleInProgress, ret, idx, pass, bus, console,
                   cycles, requests, syncs>>

\* handleResetConfig calls resetConfig
ResetConfigCall ==
    /\ pc[WebTask] = "admin_locked"
    /\ req.handler = "handleResetConfig"
    /\ Call(WebTask, "resetConfig", "admin_done")
    /\ UNCHANGED <<config, flash, kalmanStates, g_configMutex, g_processingPaused,
                   g_cycleInProgress, ret, idx, pass, req, bus, console,
                   cycles, requests, syncs>>

\* an admin handler after saveConfig or resetConfig returned: unlockConfig,
\* clear the pause flag, answer (the import handler answers 200 whatever
\* saveConfig returned)
AdminDone ==
    /\ pc[WebTask] = "admin_done"
    /\ g_configMutex' = Given(WebTask)
    /\ g_processingPaused' = FALSE
    /\ Respond(IF req.handler = "handleImportConfig" \/ ret[WebTask] THEN 200 ELSE 500)
    /\ UNCHANGED <<config, flash, kalmanStates, g_cycleInProgress, stack, ret, idx, pass,
                   bus, console, cycles, requests, syncs>>

\* handleReadRegisters: entry
HandleReadRegisters ==
    /\ StartRequest("handleReadRegisters", NoBody, NoWrite, 0)
    /\ pc' = [pc EXCEPT ![WebTask] = "read_lock"]
    /\ UNCHANGED <<config, flash, kalmanStates, g_configMutex, g_processingPaused,
                   g_cycleInProgress, stack, ret, idx, pass, bus, console, cycles, syncs>>

\* lockConfig(pdMS_TO_TICKS(2000)) succeeds and readAllDevices is called
ReadRegistersLock ==
    /\ pc[WebTask] = "read_lock"
    /\ CanTake(WebTask)
    /\ g_configMutex' = Taken(WebTask)
    /\ pc' = [pc EXCEPT ![WebTask] = "readAllDevices"]
    /\ idx' = [idx EXCEPT ![WebTask] = 0]
    /\ UNCHANGED <<config, flash, kalmanStates, g_processingPaused, g_cycleInProgress,
                   stack, ret, pass, req, bus, console, cycles, requests, syncs>>

\* lockConfig(pdMS_TO_TICKS(2000)) times out
ReadRegistersBusy ==
    /\ pc[WebTask] = "read_lock"
    /\ ~CanTake(WebTask)
    /\ Respond(503)
    /\ UNCHANGED <<config, flash, kalmanStates, g_configMutex, g_processingPaused,
                   g_cycleInProgress, stack, ret, idx, pass, bus, console,
                   cycles, requests, syncs>>

\* handleReadRegisters after readAllDevices: build the answer, unlockConfig, send
ReadRegistersDone ==
    /\ pc[WebTask] = "readDone"
    /\ g_configMutex' = Given(WebTask)
    /\ Respond(200)
    /\ UNCHANGED <<config, flash, kalmanStates, g_processingPaused, g_cycleInProgress,
                   stack, ret, idx, pass, bus, console, cycles, requests, syncs>>

\* a register the manual write accepts
CanWrite(reg) ==
    IF reg.registerType = 0 THEN ~reg.readOnly /\ reg.isInput
    ELSE reg.registerType \in {1, 2}

\* what handleWriteVariable does with parameters w when the slave answers result
WriteVariable(cfg, w, result) ==
    Where({
        IF i < 0 \/ i >= cfg.deviceCount THEN [status |-> 400, config |-> cfg, bus |-> <<>>]
        ELSE IF j < 0 \/ j >= cfg.devices[i].registerCount
        THEN [status |-> 400, config |-> cfg, bus |-> <<>>]
        ELSE IF ~CanWrite(cfg.devices[i].registers[j])
        THEN [status |-> 400, config |-> cfg, bus |-> <<>>]
        ELSE IF IsZero(cfg.devices[i].registers[j].gain)
        THEN [status |-> 400, config |-> cfg, bus |-> <<>>]
        ELSE Where({
            IF result = Success
            THEN [status |-> 200,
                  config |-> [cfg EXCEPT !.devices[i].registers[j].value = value],
                  bus |-> <<BusOp("write", WebTask, i, j, cfg, value)>>]
            ELSE [status |-> 500, config |-> cfg,
                  bus |-> <<BusOp("write", WebTask, i, j, cfg, value)>>]
            \* (uint32_t)round(rawValue) & 0xFFFF
            : value \in {RoundUint16(RDiv(RSub(w.value, cfg.devices[i].registers[j].offset),
                                          cfg.devices[i].registers[j].gain)) % 65536} })
        : i \in {w.deviceIndex}, j \in {w.registerIndex} })

\* handleWriteVariable
HandleWriteVariable(w) ==
    /\ \E result \in {Success, Timeout} :
          \E out \in {WriteVariable(config, w, result)} :
              /\ StartRequest("handleWriteVariable", NoBody, w, out.status)
              /\ config' = out.config
              /\ bus' = bus \o out.bus
    /\ UNCHANGED <<flash, kalmanStates, g_configMutex, g_processingPaused,
                   g_cycleInProgress, pc, stack, ret, idx, pass, console, cycles, syncs>>

(***************************************************************************)
(* Configurations and scripts the pass is explored with                    *)
(***************************************************************************)
\* two enabled devices: a read-only input, a read-only output before a
\* writable one, a register with gain 0
ConfigA(code) ==
    SystemConfig(<<Device(1, TRUE, <<Register(10, 2, FALSE, FALSE, Num(1), Num(0), FALSE), Register(11, 0, FALSE, TRUE, Num(1), Num(0), FALSE)>>),
                   Device(2, TRUE, <<Register(20, 0, TRUE, TRUE, Num(1), Num(0), FALSE), Register(21, 0, TRUE, FALSE, Num(1), Num(0), FALSE),
                                     Register(22, 1, FALSE, FALSE, Num(0), Num(0), FALSE)>>)>>,
                 code)

\* a disabled device with writable registers, an enabled one with a scaled
\* register and a filtered input, no output register on an enabled device
ConfigB(code) ==
    SystemConfig(<<Device(1, FALSE, <<Register(10, 2, FALSE, FALSE, Num(1), Num(0), FALSE), Register(11, 0, TRUE, FALSE, Num(1), Num(0), FALSE)>>),
                   Device(2, TRUE, <<Register(20, 2, FALSE, FALSE, Num(2), Num(1), FALSE),
                                     Register(21, 0, FALSE, TRUE, Num(1), Num(0), TRUE)>>)>>,
                 code)

Statements ==
    {"{d[0][0]} = 5",
     "{d[1][1]} = {d[0][0]} + 1",
     "{d[0][1]} = {d[1][0]} * 2",
     "{d[0][0]} = 1 / 0",
     "{d[0][0]} = {d[5][0]}",
     "{d[7][0]} = 1",
     "{d[1][2]} = 4",
     "a = 2",
     "{d[0][0]} = a + 1",
     "{d[0][0]} + 3",
     "{d[0][0]} = {d[1][1]}",
     "# note"}

\* statements that are run alone: operator precedence, comparisons, targets
\* that are not well-formed placeholders, a scaled target, calls of pow,
\* placeholders that are repeated, malformed or out of range, divisions and
\* remainders, equalities and sums of comparisons, chains of / % *,
\* results below, inside and above the range of the scaled target
SingleStatements ==
    {"{d[0][0]} = 2+3*4",
     "{d[0][0]} = (2+3)*4",
     "{d[0][0]} = 2^3^2",
     "{d[0][0]} = 2^3*4",
     "{d[0][0]} = {d[0][1]} >= 10",
     "{d[0][0]} = {d[0][1]} >= 7",
     "{d[0][1]} >= 10",
     "{d[0][1]} == 7",
     "{d[0][1]} != 7",
     "{d[0][1]} <= 7",
     "tmp = 1 + 2",
     "total1 = 1",
     "{d[x][0]} = 5",
     "{d[][0]} = 5",
     "{d[0][0] = 5",
     "{d[0][0]}x = 5",
     "{d[0][0 = 5",
     "{d[1][0]} = 1",
     "{d[1][0]} = 2",
     "{d[1][0]} = 5",
     "{d[1][0]} = 131071",
     "{d[0][0]} = pow(2, 3)",
     "{d[0][0]} = pow(2)",
     "{d[0][0]} = pow((2, 3)",
     "{d[0][0]} = {d[0][0]} + {d[0][0]}",
     "{d[0][0]} = {d[0]} + 1",
     "{d[0][0]} = {d[0][0} + 1",
     "{d[0][0]} = {d[0][0] + 1",
     "{d[0][0]} = {d[][0]} + 1",
     "{d[0][0]} = {d[x][0]} + 1",
     "{d[0][0]} = {d[0][9]} + 1",
     "{d[0][0]} = {x} + 1",
     "{d[0][0]} = 5 % 0",
     "{d[0][0]} = 7 % 4",
     "{d[0][0]} = 6 / 3",
     "{d[0][0]} = 1 / (2 - 2)",
     "{d[0][0]} = 1 / {d[1][1]}",
     "{d[0][0]} = 1.0000005 == 1",
     "{d[0][0]} = 1.0000005 != 1",
     "{d[0][0]} = 1.000002 == 1",
     "{d[0][0]} = 1.000002 != 1",
     "{d[0][0]} = (5 % 0) == 1",
     "{d[0][0]} = (5 % 0) != 1",
     "{d[0][0]} = (3 > 2) + (5 > 4)",
     "{d[0][0]} = (3 > 2) + (4 > 5)",
     "{d[0][0]} = 8 / 2 / 2",
     "{d[0][0]} = (8 / 2) / 2",
     "{d[0][0]} = 7 % 4 * 2",
     "{d[0][0]} = (7 % 4) * 2",
     "{d[1][0]} = 0",
     "{d[1][0]} = 4.5",
     "{d[1][0]} = 200000",
     "{d[0][0]} = if(0, 1 / 0, 5)",
     "{d[0][0]} = if(1, 5, 1 / 0)",
     "{d[0][0]} = if(1, 1 / 0, 5)",
     "{d[0][0]} = if(1, 3, 4)",
     "{d[0][0]} = if(0, 3, 4)",
     "{d[0][0]} = 1 == 1",
     "{d[0][0]} = 1 >= 1",
     "{d[0][0]} = 1 <= 1",
     "{d[0][0]} = 1 > 1",
     "{d[0][0]} = 1 < 1",
     "{d[0][0]} = 1.0000005 >= 1",
     "{d[0][0]} = 1.0000005 <= 1",
     "{d[0][0]} = 1.0000005 > 1",
     "{d[0][0]} = 1.0000005 < 1"}

JoinLines(a, b) == a \o "\n" \o b

Scripts ==
    {""} \cup Statements \cup SingleStatements
    \cup {JoinLines(a, b) : a \in Statements, b \in Statements}
    \cup {JoinLines("{d[0][0]} = 1 / 0", JoinLines("", "{d[1][1]} = {d[0][0]} + 9")),
          JoinLines("a = 2", JoinLines("a = a + 1", "{d[1][1]} = a")),
          JoinLines("{d[0][0]} + 3", "9")}

InitWith(cfg) ==
    /\ config = cfg
    /\ flash = Persisted(cfg)
    /\ kalmanStates = [i \in DevIdx |-> [j \in RegIdx |-> KalmanResetState]]
    /\ g_configMutex = [owner |-> "none", count |-> 0]
    /\ g_processingPaused = FALSE
    /\ g_cycleInProgress = FALSE
    /\ pc = [t \in Tasks |-> "idle"]
    /\ stack = [t \in Tasks |-> <<>>]
    /\ ret = [t \in Tasks |-> FALSE]
    /\ idx = [t \in Tasks |-> 0]
    /\ pass = [deviceValues |-> BuildDeviceValues(SystemConfig(<<>>, ""), <<>>),
               tempVariables |-> <<>>, startPos |-> 0, lineNumber |-> 1]
    /\ req = NoRequest
    /\ bus = <<>>
    /\ console = <<>>
    /\ cycles = 0
    /\ requests = 0
    /\ syncs = 0

\* the cycle alone, over the configurations and scripts above
InitPass == \E code \in Scripts : \E cfg \in {ConfigA(code), ConfigB(code)} : InitWith(cfg)
SpecPass == InitPass /\ [][Cycle]_vars

(***************************************************************************)
(* The whole firmware: the loop task and the web task                      *)
(***************************************************************************)
\* the configuration the device boots with
BootConfig ==
    SystemConfig(<<Device(1, TRUE, <<Register(10, 2, FALSE, FALSE, Num(1), Num(0), FALSE)>>),
                   Device(2, FALSE, <<Register(20, 0, TRUE, FALSE, Num(1), Num(0), FALSE)>>)>>,
                 JoinLines("# note", "{d[1][0]} = {d[0][0]} + 1"))

\* the configuration the web client uploads
UploadedConfig ==
    SystemConfig(<<Device(3, TRUE, <<Register(30, 2, FALSE, FALSE, Num(1), Num(0), FALSE)>>)>>, "{d[0][0]} = 5")

\* the bodies of the save and import requests
Bodies ==
    {JsonBody("empty", NoBody.doc), JsonBody("malformed", NoBody.doc),
     JsonBody("invalid", NoBody.doc),
     JsonBody("no_devices", JsonDocument(UploadedConfig)),
     JsonBody("full", JsonDocument(UploadedConfig))}

WriteBodies ==
    {WriteBody(0, 0, Num(5)), WriteBody(1, 0, Num(5)), WriteBody(4, 0, Num(5)),
     WriteBody(0, 0, Rat(9, 2)), WriteBody(0, 0, Num(70000))}

Init == InitWith(BootConfig)

Next ==
    \/ Cycle
    \/ \E body \in Bodies : HandleSaveConfig(body)
    \/ \E body \in Bodies : HandleImportConfig(body)
    \/ HandleResetConfig
    \/ AdminWait
    \/ AdminLock
    \/ AdminBusy
    \/ AdminBody
    \/ ResetConfigCall
    \/ AdminDone
    \/ HandleReadRegisters
    \/ ReadRegistersLock
    \/ ReadRegistersBusy
    \/ ReadDevice(WebTask)
    \/ ReadReturn(WebTask)
    \/ ReadRegistersDone
    \/ \E w \in WriteBodies : HandleWriteVariable(w)
    \/ \E t \in Tasks : SaveConfigLock(t)
    \/ \E t \in Tasks : SaveConfigWrite(t)
    \/ \E t \in Tasks : ResetConfigEnter(t)
    \/ \E t \in Tasks : ResetConfigReturn(t)
    \/ LoopSyncNTP

Spec == Init /\ [][Next]_vars

\* the scheduler lets the web task run: a handler that can take its next
\* step eventually takes it (the waits of the handlers are bounded: 2 s for
\* the cycle, 100 ms for the guard); nothing is assumed about the loop task
SpecLive ==
    Spec /\ WF_vars(\/ AdminWait \/ AdminLock \/ AdminBusy \/ AdminBody
                    \/ ResetConfigCall \/ AdminDone
                    \/ SaveConfigLock(WebTask) \/ SaveConfigWrite(WebTask)
                    \/ ResetConfigEnter(WebTask) \/ ResetConfigReturn(WebTask))

(***************************************************************************)
(* Smoothing: read cycles and saves that switch the filter of a register   *)
(***************************************************************************)
MaxChanges == 2

\* a device with one scaled holding register, smoothed or not, and a device
\* with two registers that are not smoothed
SmoothingConfig(kalmanEnabled) ==
    SystemConfig(<<Device(1, TRUE, <<Register(10, 2, FALSE, FALSE, Num(2), Num(1),
                                              kalmanEnabled)>>),
                   Device(2, TRUE, <<Register(20, 2, FALSE, FALSE, Num(1), Num(0), FALSE),
                                     Register(21, 2, FALSE, FALSE, Num(3), Num(0), FALSE)>>)>>,
                 JoinLines("# note", "{d[0][0]} = {d[0][0]}"))

\* handleSaveConfig with a complete body, from its entry to its answer, when
\* the guard is free: the fields of the document are written to config and
\* saveConfig persists them or fails; the cached values are zeroed and
\* kalmanStates is not touched
SaveConfigWhole(body) ==
    /\ pc[WebTask] = "idle"
    /\ CanTake(WebTask)
    /\ requests < MaxChanges
    /\ requests' = requests + 1
    /\ config' = ApplyDevices(ApplyHeader(config, body.doc), body.doc)
    /\ \E saved \in BOOLEAN :
          /\ flash' = IF saved THEN Persisted(config') ELSE flash
          /\ req' = [handler |-> "handleSaveConfig", body |-> body, write |-> NoWrite,
                     status |-> IF saved THEN 200 ELSE 500, held |-> Hold(WebTask),
                     retried |-> FALSE]
    /\ UNCHANGED <<kalmanStates, g_configMutex, g_processingPaused, g_cycleInProgress,
                   pc, stack, ret, idx, pass, bus, console, cycles, syncs>>

InitSmoothing == InitWith(SmoothingConfig(TRUE))

NextSmoothing ==
    \/ Cycle
    \/ \E kalmanEnabled \in BOOLEAN :
          SaveConfigWhole(JsonBody("full", JsonDocument(SmoothingConfig(kalmanEnabled))))

SpecSmoothing == InitSmoothing /\ [][NextSmoothing]_vars

(***************************************************************************)
(* evaluateExpression called with a table of variables                     *)
(***************************************************************************)
\* the loop task is in a call of evaluateExpression: the expression is the
\* name x or y in one of the contexts (text before, text after), the table
\* is empty or binds x, alone or after another name
InitEval ==
    /\ \E before \in {"", "2 + ", "2 * ", "2 / ", "2 ^ ", "(", "abs("},
          name \in {"x", "y"},
          after \in {"", " + 2", " * 2", " / 2", " % 2", " ^ 2", ") * 2", ")", " > 1"},
          table \in {<<>>} \cup {<<[name |-> "x", value |-> Num(v)]>> : v \in {0, 2, 3, 5}}
                          \cup {<<[name |-> "z", value |-> Num(1)],
                                  [name |-> "x", value |-> Num(3)]>>} :
            pass = [deviceValues |-> BuildDeviceValues(SystemConfig(<<>>, ""), <<>>),
                    tempVariables |-> table, startPos |-> 0, lineNumber |-> 1,
                    processedExpression |-> before \o name \o after]
    /\ config = SystemConfig(<<>>, "")
    /\ flash = Persisted(config)
    /\ kalmanStates = [i \in DevIdx |-> [j \in RegIdx |-> KalmanResetState]]
    /\ g_configMutex = [owner |-> "none", count |-> 0]
    /\ g_processingPaused = FALSE
    /\ g_cycleInProgress = FALSE
    /\ pc = [t \in Tasks |-> IF t = LoopTask THEN "evaluateExpression" ELSE "idle"]
    /\ stack = [t \in Tasks |-> <<>>]
    /\ ret = [t \in Tasks |-> FALSE]
    /\ idx = [t \in Tasks |-> 0]
    /\ req = NoRequest
    /\ bus = <<>>
    /\ console = <<>>
    /\ cycles = 0
    /\ requests = 0
    /\ syncs = 0

\* evaluateExpression returns
Evaluate ==
    /\ pc[LoopTask] = "evaluateExpression"
    /\ ret' = [ret EXCEPT ![LoopTask] =
                  evaluateExpression(pass.processedExpression, pass.tempVariables)]
    /\ pc' = [pc EXCEPT ![LoopTask] = "idle"]
    /\ UNCHANGED <<config, flash, kalmanStates, g_configMutex, g_processingPaused,
                   g_cycleInProgress, stack, idx, pass, req, bus, console, cycles,
                   requests, syncs>>

SpecEval == InitEval /\ [][Evaluate]_vars

(***************************************************************************)
(* setup(): loadConfig reads the stored configuration                      *)
(***************************************************************************)
\* loadConfig (config_storage.cpp 16-369) on the configuration cfg and the
\* stored string: the configuration it leaves and whether the return path it
\* takes calls unlockConfig. A stored document has a kind ("invalid": the
\* deserialisation fails, "no_devices": an object without "devices" array,
\* "full"), the header fields and the devices; a stored device has its
\* declared registerCount, hasRegisters and its registers.
loadConfig(cfg, stored) ==
    IF ~stored.present THEN
        [config |-> [cfg EXCEPT
            !.serial = 9600, !.deviceCount = 0, !.calculationCode = "",
            !.devices = [i \in DevIdx |-> [cfg.devices[i] EXCEPT
                !.registers = [j \in RegIdx |-> [cfg.devices[i].registers[j] EXCEPT
                    !.gain = Num(1), !.offset = Num(0), !.readOnly = FALSE,
                    !.kalmanEnabled = FALSE, !.kalmanQ = Rat(1, 100),
                    !.kalmanR = Rat(1, 10)]]]]],
         unlocked |-> TRUE]
    ELSE IF stored.data.kind = "invalid" THEN
        [config |-> [cfg EXCEPT !.deviceCount = 0], unlocked |-> TRUE]
    ELSE IF stored.data.kind = "no_devices" THEN
        [config |-> [cfg EXCEPT !.serial = stored.data.serial,
                                !.calculationCode = stored.data.calculationCode,
                                !.deviceCount = 0],
         unlocked |-> FALSE]
    ELSE
        [config |-> [cfg EXCEPT
            !.serial = stored.data.serial,
            !.calculationCode = stored.data.calculationCode,
            !.deviceCount = stored.data.deviceCount,
            !.devices = [i \in DevIdx |->
                IF i >= stored.data.deviceCount \/ i >= Len(stored.data.devices)
                THEN cfg.devices[i]
                ELSE Where({
                    [slaveAddress |-> deviceObj.slaveAddress,
                     enabled |-> deviceObj.enabled,
                     registerCount |-> registerCount,
                     registers |-> [j \in RegIdx |->
                         IF j < registerCount
                         THEN [deviceObj.registers[j + 1] EXCEPT !.value = 0]
                         ELSE cfg.devices[i].registers[j]]]
                    : registerCount \in
                        {IF ~stored.data.devices[i + 1].hasRegisters THEN 0
                         ELSE Where({IF n > MAX_REGISTERS_PER_DEVICE
                                     THEN MAX_REGISTERS_PER_DEVICE ELSE n
                                     : n \in {IF stored.data.devices[i + 1].registerCount
                                                 > Len(stored.data.devices[i + 1].registers)
                                              THEN Len(stored.data.devices[i + 1].registers)
                                              ELSE stored.data.devices[i + 1].registerCount}})},
                      deviceObj \in {stored.data.devices[i + 1]} })]],
         unlocked |-> TRUE]

\* setup() calls loadConfig in the loop task, before the web server is started:
\* lockConfig(portMAX_DELAY), the load, and the unlockConfig of the return path
LoadConfig ==
    /\ pc[LoopTask] = "loadConfig"
    /\ CanTake(LoopTask)
    /\ config' = loadConfig(config, flash).config
    /\ g_configMutex' = IF loadConfig(config, flash).unlocked THEN g_configMutex
                        ELSE Taken(LoopTask)
    /\ pc' = [pc EXCEPT ![LoopTask] = "idle"]
    /\ UNCHANGED <<flash, kalmanStates, g_processingPaused, g_cycleInProgress,
                   stack, ret, idx, pass, req, bus, console, cycles, requests, syncs>>

\* the firmware at the call of loadConfig: config is the zero-initialised
\* global, the flash holds nothing, or a string that is no JSON, or a document
\* with or without "devices" array
InitBoot ==
    /\ config = [serial |-> 0, deviceCount |-> 0, calculationCode |-> "",
                 devices |-> [i \in DevIdx |->
                    [slaveAddress |-> 0, enabled |-> FALSE, registerCount |-> 0,
                     registers |-> [j \in RegIdx |->
                        [address |-> 0, value |-> 0, isInput |-> FALSE,
                         isOutput |-> FALSE, readOnly |-> FALSE, gain |-> Num(0),
                         offset |-> Num(0), kalmanEnabled |-> FALSE,
                         kalmanQ |-> Num(0), kalmanR |-> Num(0),
                         registerType |-> 0, registerCount |-> 0]]]]]
    /\ \E kind \in {"none", "invalid", "no_devices", "full"} :
       \E deviceCount \in {0, 1, 2, MAX_DEVICES, MAX_DEVICES + 1, 255} :
       \E stored \in {0, 1, 2, MAX_DEVICES + 1} :
       \E declared \in {0, 1, 2, MAX_REGISTERS_PER_DEVICE + 1, 255} :
       \E present \in {-1, 0, 1, 2, MAX_REGISTERS_PER_DEVICE + 1} :
          /\ kind \in {"none", "invalid"} => deviceCount = 0
          /\ kind # "full" => stored = 0
          /\ stored = 0 => (declared = 0 /\ present = -1)
          /\ flash = [present |-> kind # "none",
                      data |-> [kind |-> kind, serial |-> 19200,
                                deviceCount |-> deviceCount,
                                calculationCode |-> "{d[0][0]} = 5",
                                devices |-> [i \in 1 .. stored |->
                                    [slaveAddress |-> i, enabled |-> TRUE,
                                     registerCount |-> declared,
                                     hasRegisters |-> present >= 0,
                                     registers |-> [j \in 1 .. present |->
                                        Register(10 + j, 2, FALSE, FALSE, Num(1),
                                                 Num(0), FALSE)]]]]]
    /\ kalmanStates = [i \in DevIdx |-> [j \in RegIdx |-> KalmanResetState]]
    /\ g_configMutex = [owner |-> "none", count |-> 0]
    /\ g_processingPaused = FALSE
    /\ g_cycleInProgress = FALSE
    /\ pc = [t \in Tasks |-> IF t = LoopTask THEN "loadConfig" ELSE "idle"]
    /\ stack = [t \in Tasks |-> <<>>]
    /\ ret = [t \in Tasks |-> FALSE]
    /\ idx = [t \in Tasks |-> 0]
    /\ pass = [deviceValues |-> BuildDeviceValues(SystemConfig(<<>>, ""), <<>>),
               tempVariables |-> <<>>, startPos |-> 0, lineNumber |-> 1]
    /\ req = NoRequest
    /\ bus = <<>>
    /\ console = <<>>
    /\ cycles = 0
    /\ requests = 0
    /\ syncs = 0

SpecBoot == InitBoot /\ [][LoadConfig]_vars

(***************************************************************************)
(* A cycle of a firmware that has run before                               *)
(***************************************************************************)
\* the loop task is about to start a cycle after earlier cycles and changes of
\* the configuration: every register has the cached raw value 9 and a filter
\* state initialised with the estimate 9. Device 0 has a register with the
\* offset -10 (its processed values are negative) and a plain register;
\* device 1, enabled or not, has a smoothed register and a smoothed register
\* that is write-only and therefore never read.
InitWarm ==
    /\ \E enabled \in BOOLEAN :
       \E code \in {"{d[0][1]} = {d[0][0]}^2",
                    "{d[0][1]} = 2*{d[0][0]}^2 / 2",
                    "{d[0][1]} = 0 - {d[0][0]}",
                    "{d[0][1]} = {d[0][0]} + 10",
                    "{d[0][1]} = {d[1][0]} * 2",
                    JoinLines("# smoothed", "{d[0][1]} = 20 + {d[1][0]}")} :
          config = SystemConfig(
              <<Device(1, TRUE,
                       <<[Register(10, 2, FALSE, FALSE, Num(1), Num(-10), FALSE)
                             EXCEPT !.value = 9],
                         [Register(11, 2, FALSE, FALSE, Num(1), Num(0), FALSE)
                             EXCEPT !.value = 9]>>),
                Device(2, enabled,
                       <<[Register(20, 2, FALSE, FALSE, Num(1), Num(0), TRUE)
                             EXCEPT !.value = 9, !.kalmanR = Num(2)],
                         [Register(21, 1, FALSE, FALSE, Num(1), Num(0), TRUE)
                             EXCEPT !.value = 9, !.kalmanR = Num(2)]>>)>>,
              code)
    /\ flash = Persisted(config)
    /\ kalmanStates = [i \in DevIdx |-> [j \in RegIdx |->
                          IF i < 2 /\ j < 2
                          THEN [estimate |-> Num(9), errorCov |-> Num(1),
                                initialized |-> TRUE]
                          ELSE KalmanResetState]]
    /\ g_configMutex = [owner |-> "none", count |-> 0]
    /\ g_processingPaused = FALSE
    /\ g_cycleInProgress = FALSE
    /\ pc = [t \in Tasks |-> "idle"]
    /\ stack = [t \in Tasks |-> <<>>]
    /\ ret = [t \in Tasks |-> FALSE]
    /\ idx = [t \in Tasks |-> 0]
    /\ pass = [deviceValues |-> BuildDeviceValues(SystemConfig(<<>>, ""), <<>>),
               tempVariables |-> <<>>, startPos |-> 0, lineNumber |-> 1]
    /\ req = NoRequest
    /\ bus = <<>>
    /\ console = <<>>
    /\ cycles = 0
    /\ requests = 0
    /\ syncs = 0

SpecWarm == InitWarm /\ [][Cycle]_vars

(***************************************************************************)
(* Properties                                                              *)
(***************************************************************************)
\* the loop task is inside a read / calculate / write cycle
CycleInProgress ==
    pc[LoopTask] \in {"readAllDevices", "performCalculations", "lineLoop", "writeOutputRegisters"}

\* the web task is inside an admin handler, between the acquisition of the
\* guard and the handler's return
AdminInProgress ==
    /\ req.handler \in AdminHandlers
    /\ pc[WebTask] \notin {"idle", "admin_wait", "admin_lock"}

\* C1: the read / calculate / write cycle and the admin handlers (save,
\* import, reset) never overlap: at no time is the loop task inside a cycle
\* while the web task is inside an admin handler that has acquired the guard.
C1_CycleExcludesAdmin == ~(CycleInProgress /\ AdminInProgress)

\* C2: every return of an admin handler (save, import, reset) that is taken
\* after the handler acquired the guard leaves the hold count of the web task
\* at the value it had when the handler was entered and leaves
\* g_processingPaused false, whatever the path: invalid JSON, a JSON object
\* without a "devices" array, a failed saveConfig, or success.
C2_AdminReturnReleases ==
    [][(pc[WebTask] \in {"admin_locked", "admin_done"} /\ pc'[WebTask] = "idle")
        => (Hold(WebTask)' = req.held /\ ~g_processingPaused')]_vars

\* the web task returns from the handler it is in
WebReturns == pc[WebTask] # "idle" /\ pc'[WebTask] = "idle"

\* C3: an admin handler whose lockConfig(100 ms) times out because another
\* task holds the guard answers 503, writes nothing to the configuration nor
\* to the flash, clears the pause flag, takes no hold on the guard and returns
\* at once (it is never left waiting for the guard); the same request sent
\* again, once the guard is free, acquires the guard and is carried out: when
\* it returns, the configuration is the uploaded one (the default one for a
\* reset) and, if it answered 200 after a successful saveConfig, so is the flash.
C3_BusyIsRejected ==
    /\ [](pc[WebTask] = "admin_lock" => ENABLED (AdminLock \/ AdminBusy))
    /\ [][/\ (pc[WebTask] = "admin_lock" /\ ~CanTake(WebTask) /\ pc'[WebTask] # "admin_lock")
             => /\ WebReturns
                /\ req'.status = 503
                /\ config' = config
                /\ flash' = flash
                /\ g_configMutex' = g_configMutex
                /\ ~g_processingPaused'
          /\ (pc[WebTask] = "admin_lock" /\ req.retried /\ CanTake(WebTask)
                /\ pc'[WebTask] # "admin_lock")
             => /\ pc'[WebTask] = "admin_locked"
                /\ Hold(WebTask)' = req.held + 1
          /\ (pc[WebTask] = "admin_done" /\ req.retried /\ WebReturns)
             => /\ req'.status \in {200, 500}
                /\ JsonDocument(config') =
                      IF req.handler = "handleResetConfig"
                      THEN JsonDocument(SystemConfig(<<>>, ""))
                      ELSE req.body.doc
                /\ (req'.status = 200 /\ ret[WebTask])
                      => flash' = Persisted(config')]_vars

\* a request that was answered 503 has been sent again and answered 200
C3_RetrySucceeded ==
    /\ pc[WebTask] = "idle"
    /\ req.handler \in AdminHandlers
    /\ req.retried
    /\ req.status = 200
    /\ ret[WebTask]

\* the lines of a script, split at the line feeds
RECURSIVE SplitLines(_, _)
SplitLines(codeStr, current) ==
    IF Len(codeStr) = 0 THEN <<current>>
    ELSE IF Head(codeStr) = Head("\n") THEN <<current>> \o SplitLines(Tail(codeStr), "")
    ELSE SplitLines(Tail(codeStr), current \o SubSeq(codeStr, 1, 1))

\* the statements among lines: the trimmed lines that are neither blank nor comments
RECURSIVE StatementsAmong(_)
StatementsAmong(lines) ==
    IF Len(lines) = 0 THEN <<>>
    ELSE IF trim(Head(lines)) = "" \/ Ch(trim(Head(lines)), 1) = "#"
         THEN StatementsAmong(Tail(lines))
    ELSE <<trim(Head(lines))>> \o StatementsAmong(Tail(lines))

\* the statements of a script, in source order
StatementsOf(codeStr) == StatementsAmong(SplitLines(codeStr, ""))

\* the loop task stays in the line loop and a statement is processed
StatementStep ==
    pc[LoopTask] = "lineLoop" /\ pc'[LoopTask] = "lineLoop" /\ console' # console

\* C4: one pass of performCalculations processes each statement of the script
\* exactly once and in source order: the console holds one line per statement
\* processed so far, the k-th for the k-th statement, and all statements were
\* processed when the pass ends.  A statement that fails (parse, substitution,
\* evaluation or write validation) produces exactly one error line and changes
\* no register, no temporary variable, nothing of the snapshot and sends
\* nothing on the bus; the effect of every statement on the registers and the
\* temporary variables depends only on the configuration, the snapshot and the
\* variable table it finds, all of which a failing statement leaves as they
\* were, so the later statements have the effect they would have without it.
C4_StatementsOnceInOrder ==
    /\ [](pc[LoopTask] \in {"lineLoop", "writeOutputRegisters"}
            => /\ Len(console) = pass.lineNumber - 1
               /\ Len(console) <= Len(StatementsOf(config.calculationCode))
               /\ \A k \in 1 .. Len(console) :
                     /\ console[k].line = k
                     /\ console[k].stmt = StatementsOf(config.calculationCode)[k]
               /\ pc[LoopTask] = "writeOutputRegisters"
                     => Len(console) = Len(StatementsOf(config.calculationCode)))
    /\ [][StatementStep
            => /\ Len(console') = Len(console) + 1
               /\ SubSeq(console', 1, Len(console)) = console
               /\ pass'.deviceValues = pass.deviceValues
               /\ console'[Len(console')].kind \in ErrorKinds
                     => /\ config' = config
                        /\ pass'.tempVariables = pass.tempVariables
                        /\ kalmanStates' = kalmanStates
                        /\ bus' = bus
               /\ \E writeResult \in {Success, Timeout}, ub \in UndefinedUint16 :
                     /\ config' = ExecuteStatement(config, pass.deviceValues,
                                      pass.tempVariables, console'[Len(console')].stmt,
                                      0, writeResult, ub).config
                     /\ pass'.tempVariables = ExecuteStatement(config, pass.deviceValues,
                                      pass.tempVariables, console'[Len(console')].stmt,
                                      0, writeResult, ub).tempVariables]_vars

\* a pass is over in which the first statement failed and the second one
\* assigned its register and wrote it to the slave
C4_FailureThenAssignment ==
    /\ pc[LoopTask] = "writeOutputRegisters"
    /\ Len(console) = 2
    /\ console[1].kind \in ErrorKinds
    /\ console[2].kind = "assignment_done"
    /\ console[2].stmt = "{d[0][0]} = 5"
    /\ config.devices[0].registers[0].value = 5
    /\ Len(bus) > 0
    /\ bus[Len(bus)].op = "write"

\* the statements of the scripts that read one register and assign a function
\* of it (times mul, plus add) to the register <<ti, tj>>
SingleReads ==
    {[stmt |-> "{d[1][1]} = {d[0][0]} + 1", ti |-> 1, tj |-> 1, si |-> 0, sj |-> 0,
      mul |-> 1, add |-> 1],
     [stmt |-> "{d[0][1]} = {d[1][0]} * 2", ti |-> 0, tj |-> 1, si |-> 1, sj |-> 0,
      mul |-> 2, add |-> 0],
     [stmt |-> "{d[0][0]} = {d[1][1]}", ti |-> 0, tj |-> 0, si |-> 1, sj |-> 1,
      mul |-> 1, add |-> 0]}

\* the raw value a register assignment stores for the processed value v
StoredValue(reg, v) == ClampUint16(RDiv(RSub(v, reg.offset), reg.gain), 0)

\* C5: a statement that reads {d[i][j]} obtains the value the snapshot holds,
\* which is the processed value computed from the configuration when the pass
\* began and which no statement of the pass changes: an assignment that reads
\* one register stores the function of the snapshot value of that register,
\* and the fallback for "{d[0][0]} + 3" stores the snapshot value of d[0][0]
\* plus 3, whatever earlier statements of the pass stored in the registers read.
C5_ReadsSnapshot ==
    [][/\ (pc[LoopTask] = "performCalculations" /\ pc'[LoopTask] = "lineLoop")
          => \A i \in 0 .. (config.deviceCount - 1) :
                \A j \in 0 .. (config.devices[i].registerCount - 1) :
                    pass'.deviceValues.values[i][j] =
                        IF config.devices[i].registers[j].kalmanEnabled
                           /\ kalmanStates[i][j].initialized
                        THEN RAdd(RMul(kalmanStates[i][j].estimate,
                                       config.devices[i].registers[j].gain),
                                  config.devices[i].registers[j].offset)
                        ELSE RAdd(RMul(Num(config.devices[i].registers[j].value),
                                       config.devices[i].registers[j].gain),
                                  config.devices[i].registers[j].offset)
       /\ (pc[LoopTask] = "lineLoop" /\ pc'[LoopTask] = "lineLoop")
          => pass'.deviceValues = pass.deviceValues
       /\ StatementStep
          => /\ \A r \in SingleReads :
                   (/\ console'[Len(console')].stmt = r.stmt
                    /\ console'[Len(console')].kind \in {"assignment_done", "modbus_write_error"})
                   => config'.devices[r.ti].registers[r.tj].value =
                         StoredValue(config.devices[r.ti].registers[r.tj],
                                     RAdd(RMul(pass.deviceValues.values[r.si][r.sj], Num(r.mul)),
                                          Num(r.add)))
             /\ (/\ console'[Len(console')].stmt = "{d[0][0]} + 3"
                 /\ console'[Len(console')].kind = "calculation_done")
                => \E i \in 0 .. (config.deviceCount - 1) :
                      \E j \in 0 .. (config.devices[i].registerCount - 1) :
                          config' = [config EXCEPT !.devices[i].registers[j].value =
                                        ClampUint16(RAdd(pass.deviceValues.values[0][0], Num(3)), 0)]
      ]_vars

\* an assignment stored 5 in d[0][0], whose snapshot value is 7, and the next
\* statement, which reads d[0][0], stored 7 + 1 in d[1][1]
C5_ReadAfterAssignment ==
    /\ pc[LoopTask] = "lineLoop"
    /\ Len(console) = 2
    /\ console[1].stmt = "{d[0][0]} = 5"
    /\ console[1].kind = "assignment_done"
    /\ console[2].stmt = "{d[1][1]} = {d[0][0]} + 1"
    /\ console[2].kind = "assignment_done"
    /\ config.devices[0].registers[0].value = 5
    /\ pass.deviceValues.values[0][0] = Num(7)
    /\ config.devices[1].registers[1].value = 8

\* the fallback stored 7 + 3 in d[1][1], whose snapshot value is 0, and the
\* next statement, which reads d[1][1], stored 0 in d[0][0]
C5_ReadAfterFallback ==
    /\ pc[LoopTask] = "lineLoop"
    /\ Len(console) = 2
    /\ console[1].stmt = "{d[0][0]} + 3"
    /\ console[1].kind = "calculation_done"
    /\ console[2].stmt = "{d[0][0]} = {d[1][1]}"
    /\ console[2].kind = "assignment_done"
    /\ config.devices[1].registers[1].value = 10
    /\ config.devices[0].registers[0].value = 0

\* C6: a statement "name = expr" stores the value of expr under name in the
\* table of temporary variables, and a later statement of the same pass that
\* uses name evaluates with the value stored last: after "a = 2" the table
\* maps a to 2 and "{d[0][0]} = a + 1" stores 3; the table is empty when a
\* pass begins, so that a statement using a name no earlier statement of the
\* pass assigned fails.
C6_TemporaryVariables ==
    [][/\ (pc[LoopTask] = "performCalculations" /\ pc'[LoopTask] = "lineLoop")
          => pass'.tempVariables = <<>>
       /\ (StatementStep /\ console'[Len(console')].stmt = "a = 2")
          => /\ console'[Len(console')].kind = "temp_variable"
             /\ \E k \in 1 .. Len(pass'.tempVariables) :
                   pass'.tempVariables[k] = [name |-> "a", value |-> Num(2)]
       /\ (StatementStep /\ console'[Len(console')].stmt = "{d[0][0]} = a + 1")
          => IF \E k \in 1 .. Len(pass.tempVariables) : pass.tempVariables[k].name = "a"
             THEN \/ console'[Len(console')].kind \in ErrorKinds \ {"parse_error",
                         "substitution_error", "evaluation_error"}
                  \/ \E k \in 1 .. Len(pass.tempVariables) :
                        /\ pass.tempVariables[k].name = "a"
                        /\ config'.devices[0].registers[0].value =
                              StoredValue(config.devices[0].registers[0],
                                          RAdd(pass.tempVariables[k].value, Num(1)))
             ELSE console'[Len(console')].kind \in ErrorKinds
      ]_vars

\* the web task calls the Modbus store or updates the register cache: an
\* iteration of the device loop of readAllDevices run for handleReadRegisters,
\* or the write and the cache update of handleWriteVariable
WebStoreStep ==
    \/ pc[WebTask] = "readAllDevices" /\ idx'[WebTask] # idx[WebTask]
    \/ /\ req' # req
       /\ req'.handler = "handleWriteVariable"
       /\ bus' # bus \/ config' # config

\* C7: handleReadRegisters and handleWriteVariable call the Modbus store and
\* update the register cache only while the web task holds the guard.
C7_WebStoreUnderGuard ==
    [][WebStoreStep => (Hold(WebTask) > 0 /\ Hold(WebTask)' > 0)]_vars

\* the web task is in an admin handler that holds the guard and has not yet
\* come to its own unlockConfig
AdminHoldsGuard ==
    /\ req.handler \in AdminHandlers
    /\ pc[WebTask] \in {"admin_locked", "saveConfig", "saveConfig_write", "resetConfig",
                        "resetConfig_return", "admin_done"}

\* C8: saveConfig and resetConfig, called by an admin handler that already
\* holds the guard, take the guard again without blocking (the guard is
\* recursive), and their unlockConfig gives back only their own hold: from the
\* acquisition by the handler until the handler's own unlockConfig, after the
\* persistence call returned, the web task holds the guard at every moment,
\* and no other task does.
C8_NestedLockReleasesOnce ==
    /\ [](AdminHoldsGuard
            => /\ g_configMutex.owner = WebTask
               /\ Hold(WebTask) >= req.held + 1
               /\ pc[WebTask] = "saveConfig" => ENABLED SaveConfigLock(WebTask)
               /\ pc[WebTask] = "resetConfig" => ENABLED ResetConfigEnter(WebTask))
    /\ [][/\ (AdminHoldsGuard /\ pc[WebTask] \in {"saveConfig", "resetConfig"}
                /\ pc'[WebTask] # pc[WebTask])
             => Hold(WebTask)' = Hold(WebTask) + 1
          /\ (AdminHoldsGuard /\ pc[WebTask] \in {"saveConfig_write", "resetConfig_return"}
                /\ pc'[WebTask] # pc[WebTask])
             => Hold(WebTask)' = Hold(WebTask) - 1
          /\ (pc[WebTask] = "admin_done" /\ pc'[WebTask] = "idle")
             => Hold(WebTask)' = req.held]_vars

\* resetConfig, with its nested saveConfig, has returned to handleResetConfig,
\* which still holds the guard once
C8_ResetReturnedUnderGuard ==
    /\ pc[WebTask] = "admin_done"
    /\ req.handler = "handleResetConfig"
    /\ ret[WebTask]
    /\ g_configMutex = [owner |-> WebTask, count |-> 1]

\* the reason why the write validation of performCalculations refuses the
\* target <<i, j>>, "" when it accepts it
Refusal(cfg, i, j) ==
    IF i < 0 \/ i >= cfg.deviceCount THEN "device_index_error"
    ELSE IF j < 0 \/ j >= cfg.devices[i].registerCount THEN "register_index_error"
    ELSE IF cfg.devices[i].registers[j].readOnly THEN "read_only_error"
    ELSE IF cfg.devices[i].registers[j].gain.n = 0 THEN "gain_zero_error"
    ELSE ""

\* C9: a register assignment whose target fails the write validation (device
\* or register index out of range, read-only register, gain 0) is reported by
\* one error line, leaves the whole register cache as it was and sends no
\* write to the slave; it is never carried out.  The fallback for a statement
\* without assignment stores its result in a register that is an output and
\* not read-only, or in none when there is no such register.
C9_FailedValidationWritesNothing ==
    [][StatementStep
        => /\ (/\ parseAssignment(console'[Len(console')].stmt).ok
               /\ parseAssignment(console'[Len(console')].stmt).hasAssignment
               /\ Refusal(config,
                          parseAssignment(console'[Len(console')].stmt).targetDeviceIndex,
                          parseAssignment(console'[Len(console')].stmt).targetRegisterIndex) # "")
              => /\ console'[Len(console')].kind \in
                       {"substitution_error", "evaluation_error",
                        Refusal(config,
                                parseAssignment(console'[Len(console')].stmt).targetDeviceIndex,
                                parseAssignment(console'[Len(console')].stmt).targetRegisterIndex)}
                 /\ Len(console') = Len(console) + 1
                 /\ config' = config
                 /\ bus' = bus
           /\ console'[Len(console')].kind \in {"device_index_error", "register_index_error",
                                                "read_only_error", "gain_zero_error"}
              => /\ config' = config
                 /\ bus' = bus
           /\ console'[Len(console')].kind = "calculation_done"
              => \E i \in 0 .. (config.deviceCount - 1) :
                    \E j \in 0 .. (config.devices[i].registerCount - 1) :
                        /\ config.devices[i].registers[j].isOutput
                        /\ ~config.devices[i].registers[j].readOnly
                        /\ \E v \in 0 .. 65535 :
                              config' = [config EXCEPT !.devices[i].registers[j].value = v]
           /\ console'[Len(console')].kind = "no_output_register"
              => config' = config
      ]_vars

\* two assignments were refused, one for a read-only target and one for a
\* target with gain 0: the registers are as the read phase left them and
\* nothing was written to the slaves
C9_TwoRefusedAssignments ==
    /\ pc[LoopTask] = "writeOutputRegisters"
    /\ Len(console) = 2
    /\ console[1].kind = "read_only_error"
    /\ console[2].kind = "gain_zero_error"
    /\ config.devices[0].registers[1].readOnly
    /\ config.devices[0].registers[1].value = 0
    /\ \A k \in 1 .. Len(bus) : bus[k].op = "read"

\* C10: no step of the cycle (read phase, script write-back, output-write
\* phase) sends a read or a write for a register of a device whose enabled
\* flag is false, and none changes the cached value of such a register.
C10_DisabledDeviceUntouched ==
    [][/\ \A k \in (Len(bus) + 1) .. Len(bus') :
             bus'[k].task = LoopTask => config.devices[bus'[k].dev].enabled
       /\ \A i \in 0 .. (config.deviceCount - 1) :
             ~config.devices[i].enabled => config'.devices[i] = config.devices[i]
      ]_vars

\* smoothing is enabled for register j of device i
Smoothed(cfg, i, j) ==
    /\ i < cfg.deviceCount
    /\ j < cfg.devices[i].registerCount
    /\ cfg.devices[i].registers[j].kalmanEnabled

\* C11: the first successful measurement of a register after smoothing was
\* enabled for it is passed through unchanged and marks the state of its
\* filter initialized, and a filter that is enabled again never resumes from
\* an earlier estimate.  This is so exactly when (1) the filter state of a
\* register is uninitialized at every change of the configuration that
\* enables smoothing for it, and (2) a successful read of a smoothed register
\* whose state is uninitialized stores the measurement itself as the cached
\* value and as the estimate, and marks the state initialized.
C11_FirstMeasurementPassesThrough ==
    [][\A i \in DevIdx : \A j \in RegIdx :
          /\ (~Smoothed(config, i, j) /\ Smoothed(config', i, j))
             => ~kalmanStates'[i][j].initialized
          /\ (/\ Smoothed(config, i, j)
              /\ ~kalmanStates[i][j].initialized
              /\ kalmanStates'[i][j] # kalmanStates[i][j])
             => /\ kalmanStates'[i][j].initialized
                /\ kalmanStates'[i][j].estimate = Num(7)
                /\ config'.devices[i].registers[j].value = 7
      ]_vars

\* C12: in a pass, only the first statement without assignment stores its
\* result (in the first output register that is not read-only on an enabled
\* device); every later statement without assignment leaves all cached
\* register values as they were.
C12_OnlyFirstFallbackWrites ==
    [][(/\ StatementStep
        /\ ~parseAssignment(console'[Len(console')].stmt).hasAssignment
        /\ \E k \in 1 .. Len(console) : ~parseAssignment(console[k].stmt).hasAssignment)
       => config' = config]_vars

\* the last console line after a statement step
LastLine == console'[Len(console')]

\* the statement "{d[0][0]} = expr" was carried out and stored value in the
\* raw value of d[0][0], whose gain is 1 and offset 0
Stores(expr, value) ==
    (StatementStep /\ LastLine.stmt = "{d[0][0]} = " \o expr)
    => /\ LastLine.kind \in {"assignment_done", "modbus_write_error"}
       /\ config'.devices[0].registers[0].value = value

\* C13: evaluateExpression gives an expression of integer literals,
\* parentheses and ^ * / % + - the value of the grammar's precedence levels
\* (^ above * / %, these above + and -, ^ right-associative): 2+3*4 is 14,
\* (2+3)*4 is 20, 2^3^2 is 512 and 2^3*4 is (2^3)*4 = 32.
C13_Precedence ==
    [][/\ Stores("2+3*4", 14)
       /\ Stores("(2+3)*4", 20)
       /\ Stores("2^3^2", 512)
       /\ Stores("2^3*4", 32)]_vars

\* position k of statement s holds a '=' that is not part of ==, !=, >= or <=
IsAssignEquals(s, k) ==
    /\ Ch(s, k) = "="
    /\ Ch(s, k - 1) \notin {"=", "<", ">", "!"}
    /\ Ch(s, k + 1) # "="

\* the first such position of s, 0 when there is none
FirstAssignEquals(s) ==
    IF \E k \in 1 .. Len(s) : IsAssignEquals(s, k)
    THEN CHOOSE k \in 1 .. Len(s) :
            IsAssignEquals(s, k) /\ \A m \in 1 .. (k - 1) : ~IsAssignEquals(s, m)
    ELSE 0

\* C14: parseAssignment takes as the assignment operator the first '=' of the
\* statement that is not part of ==, !=, >= or <=: a statement has an
\* assignment exactly when there is such a '=', and the right-hand side of an
\* accepted assignment is the text after it.  A statement whose only '=' are
\* in comparison operators is evaluated as a statement without assignment,
\* and "{d[0][0]} = {d[0][1]} >= 10" is one assignment to d[0][0], which
\* stores the truth value of the comparison of the snapshot of d[0][1] with 10.
C14_AssignmentOperator ==
    [][StatementStep
        => /\ parseAssignment(LastLine.stmt).hasAssignment
                = (FirstAssignEquals(LastLine.stmt) # 0)
           /\ (parseAssignment(LastLine.stmt).ok /\ parseAssignment(LastLine.stmt).hasAssignment)
              => parseAssignment(LastLine.stmt).expression
                    = trim(SubSeq(LastLine.stmt, FirstAssignEquals(LastLine.stmt) + 1,
                                  Len(LastLine.stmt)))
           /\ LastLine.stmt \in {"{d[0][1]} >= 10", "{d[0][1]} == 7", "{d[0][1]} != 7",
                                 "{d[0][1]} <= 7"}
              => LastLine.kind \in {"calculation_done", "no_output_register"}
           /\ \A limit \in {7, 10} :
                 LastLine.stmt = "{d[0][0]} = {d[0][1]} >= " \o ToString(limit)
                 => /\ parseAssignment(LastLine.stmt).targetDeviceIndex = 0
                    /\ parseAssignment(LastLine.stmt).targetRegisterIndex = 0
                    /\ LastLine.kind \in {"assignment_done", "modbus_write_error"}
                    /\ config'.devices[0].registers[0].value =
                          IF RLe(Num(limit), pass.deviceValues.values[0][1]) THEN 1 ELSE 0
      ]_vars

\* "{d[0][0]} = {d[0][1]} >= 7" was carried out with d[0][1] read as 7 and
\* stored 1 in d[0][0]
C14_ComparisonAssigned ==
    /\ pc[LoopTask] = "lineLoop"
    /\ Len(console) = 1
    /\ console[1].stmt = "{d[0][0]} = {d[0][1]} >= 7"
    /\ console[1].kind = "assignment_done"
    /\ pass.deviceValues.values[0][1] = Num(7)
    /\ config.devices[0].registers[0].value = 1

\* C15: a statement whose left-hand side is not a device placeholder is
\* accepted by parseAssignment as an assignment to the temporary variable
\* named by the trimmed left-hand side cut to 5 characters, and the cycle
\* stores the result under that name: "tmp = 1 + 2" gives tmp the value 3 and
\* "total1 = 1" gives total the value 1.
C15_VariableTarget ==
    [][/\ (StatementStep /\ LastLine.stmt = "tmp = 1 + 2")
          => /\ parseAssignment(LastLine.stmt).ok
             /\ LastLine.kind = "temp_variable"
             /\ pass'.tempVariables = <<[name |-> "tmp", value |-> Num(3)]>>
       /\ (StatementStep /\ LastLine.stmt = "total1 = 1")
          => /\ parseAssignment(LastLine.stmt).ok
             /\ LastLine.kind = "temp_variable"
             /\ pass'.tempVariables = <<[name |-> "total", value |-> Num(1)]>>
      ]_vars

\* statements whose left-hand side begins with "{d[" without being a
\* placeholder {d[<int>][<int>]}: non-numeric index, empty index, missing
\* closing brace, text after the closing brace, missing closing bracket
MalformedTargets ==
    {"{d[x][0]} = 5", "{d[][0]} = 5", "{d[0][0] = 5", "{d[0][0]}x = 5", "{d[0][0 = 5"}

\* C16: a left-hand side that begins with "{d[" but is not exactly
\* {d[<int>][<int>]} is a parse error: the statement is reported as such,
\* is never resolved to a register, changes no cached value and sends no write.
C16_MalformedTargetRejected ==
    [][(StatementStep /\ LastLine.stmt \in MalformedTargets)
       => /\ ~parseAssignment(LastLine.stmt).ok
          /\ LastLine.kind = "parse_error"
          /\ config' = config
          /\ bus' = bus]_vars

\* C17: for a target register with gain 2 and offset 1, the write-back of a
\* result R in [1, 131071] stores the raw value (R - 1) / 2, and the forward
\* conversion of the stored raw value, raw * 2 + 1, gives R again; checked
\* for R = 1, 2, 5 and 131071 on d[1][0].
C17_InverseThenForward ==
    [][\A R \in {1, 2, 5, 131071} :
          (/\ StatementStep
           /\ LastLine.stmt = "{d[1][0]} = " \o ToString(R)
           /\ LastLine.kind \in {"assignment_done", "modbus_write_error"}
           /\ config.devices[1].registers[0].gain = Num(2)
           /\ config.devices[1].registers[0].offset = Num(1))
          => /\ Num(config'.devices[1].registers[0].value) = RDiv(RSub(Num(R), Num(1)), Num(2))
             /\ ProcessedValue(config'.devices[1].registers[0], KalmanResetState) = Num(R)
      ]_vars

\* C18: loop() starts no cycle while g_processingPaused is set, and
\* g_cycleInProgress is true throughout every cycle and false otherwise, so
\* that an admin handler that has set g_processingPaused and then seen
\* g_cycleInProgress false does not overlap a cycle.
C18_PauseProtocol ==
    /\ [](g_cycleInProgress <=> CycleInProgress)
    /\ [][(~CycleInProgress /\ CycleInProgress') => ~g_processingPaused]_vars
    /\ [](pc[WebTask] \in {"admin_lock", "admin_locked", "admin_done"} => ~CycleInProgress)

\* C19: every request to an admin handler ends with a response: the wait for
\* g_cycleInProgress is left after 2 s at most, the guard is then tried for
\* 100 ms, and the handler either carries out the mutation (200 or 500),
\* rejects the body (400) or answers busy (503), and returns.
C19_AdminRequestAnswered ==
    (req.handler \in AdminHandlers /\ pc[WebTask] # "idle")
        ~> (pc[WebTask] = "idle" /\ req.status \in {200, 400, 500, 503})

\* a first request to an admin handler went through the wait and the guard
\* and was answered
C19_AnsweredAfterWait ==
    /\ pc[WebTask] = "idle"
    /\ req.handler \in AdminHandlers
    /\ ~req.retried
    /\ req.body.kind \notin {"empty", "malformed"}
    /\ req.status \in {200, 500, 503}

\* C20: a call pow(b, e) with exactly two argument expressions separated by
\* a comma evaluates to b raised to the power e, pow(2, 3) being 8, and a
\* call of pow with a single argument is an error.
C20_PowTwoArguments ==
    [][/\ Stores("pow(2, 3)", 8)
       /\ (StatementStep /\ LastLine.stmt = "{d[0][0]} = pow(2)")
          => /\ LastLine.kind = "evaluation_error"
             /\ config' = config]_vars

\* the right-hand side of statement s, which has a well-formed target
RightSide(s) == parseAssignment(s).expression

\* a piece of a right-hand side: text, then the placeholder of register at
\* (<<>>: no placeholder)
Piece(text, at) == [text |-> text, at |-> at]

\* right-hand sides whose placeholders are well formed and in range, cut into
\* their pieces
GoodPlaceholders ==
    {[expr |-> "{d[0][0]} + {d[0][0]}",
      parts |-> <<Piece("", <<0, 0>>), Piece(" + ", <<0, 0>>)>>],
     [expr |-> "{d[0][0]} + 1", parts |-> <<Piece("", <<0, 0>>), Piece(" + 1", <<>>)>>],
     [expr |-> "{d[1][0]} * 2", parts |-> <<Piece("", <<1, 0>>), Piece(" * 2", <<>>)>>],
     [expr |-> "{d[1][1]}", parts |-> <<Piece("", <<1, 1>>)>>],
     [expr |-> "{x} + 1", parts |-> <<Piece("{x} + 1", <<>>)>>]}

\* right-hand sides with a placeholder that is malformed (brackets, brace),
\* has an empty or non-numeric index, or names a device or a register the
\* snapshot does not have
BadPlaceholders ==
    {"{d[0]} + 1", "{d[0][0} + 1", "{d[0][0] + 1", "{d[][0]} + 1", "{d[x][0]} + 1",
     "{d[0][9]} + 1", "{d[5][0]}"}

\* the text the parts stand for: each register replaced by its snapshot value,
\* written as an integer
RECURSIVE Replaced(_, _)
Replaced(parts, dv) ==
    IF Len(parts) = 0 THEN ""
    ELSE Head(parts).text
         \o (IF Head(parts).at = <<>> THEN ""
             ELSE ToString(dv.values[Head(parts).at[1]][Head(parts).at[2]].n))
         \o Replaced(Tail(parts), dv)

\* C21: substituteDeviceValues replaces every occurrence of {d[i][j]} by the
\* snapshot value of register j of device i and copies the rest of the text,
\* a '{' that is not followed by "d[" included; it fails, and the statement
\* is reported as a substitution error that changes no register and writes
\* nothing, when a placeholder has malformed brackets, an empty or
\* non-numeric index, or an index outside the snapshot.
C21_Substitution ==
    [][StatementStep
       => /\ \A g \in GoodPlaceholders :
                RightSide(LastLine.stmt) = g.expr
                => /\ substituteDeviceValues(g.expr, pass.deviceValues, <<>>, 0)
                         = SubOk(Replaced(g.parts, pass.deviceValues))
                   /\ LastLine.kind # "substitution_error"
          /\ RightSide(LastLine.stmt) \in BadPlaceholders
                => /\ ~substituteDeviceValues(RightSide(LastLine.stmt), pass.deviceValues,
                                              <<>>, 0).ok
                   /\ LastLine.kind = "substitution_error"
                   /\ config' = config
                   /\ bus' = bus
          /\ RightSide(LastLine.stmt) = "{x} + 1" => LastLine.kind = "evaluation_error"
          /\ LastLine.stmt = "{d[0][0]} = {d[0][0]} + {d[0][0]}"
                => config'.devices[0].registers[0].value
                      = 2 * pass.deviceValues.values[0][0].n
      ]_vars

\* "{d[0][0]} = {d[0][0]} + {d[0][0]}" was carried out with d[0][0] read as 7:
\* both occurrences were replaced and 14 was stored
C21_BothOccurrencesReplaced ==
    /\ pc[LoopTask] = "lineLoop"
    /\ Len(console) = 1
    /\ console[1].stmt = "{d[0][0]} = {d[0][0]} + {d[0][0]}"
    /\ console[1].kind = "assignment_done"
    /\ pass.deviceValues.values[0][0] = Num(7)
    /\ config.devices[0].registers[0].value = 14

\* the number of line feeds among the first n characters of codeStr
RECURSIVE LineFeeds(_, _)
LineFeeds(codeStr, n) ==
    IF n = 0 THEN 0
    ELSE LineFeeds(codeStr, n - 1) + (IF Ch(codeStr, n) = "\n" THEN 1 ELSE 0)

\* C22: the line number attached to the console line of a statement is the
\* 1-based position of the statement's line in the script text: blank lines
\* and comment lines before it are counted.
C22_LineNumberIsPosition ==
    [][StatementStep
       => LastLine.line = 1 + LineFeeds(config.calculationCode, pass.startPos)]_vars

\* statement s was processed and reported as an evaluation error: no register
\* changed and nothing was written
FailsToEvaluate(s) ==
    (StatementStep /\ LastLine.stmt = s)
    => /\ LastLine.kind = "evaluation_error"
       /\ config' = config
       /\ bus' = bus

\* C23: a '/' whose right operand evaluates to 0 makes the statement fail
\* with the division-by-zero error and produces no write, whether the zero is
\* a literal, a parenthesised expression or a register value; a '%' whose
\* right operand evaluates to 0 is no error for the evaluator, and the
\* statement goes on to its assignment.  Other divisions and remainders give
\* their value: 6 / 3 is 2 and 7 % 4 is 3.
C23_DivisionByZero ==
    [][/\ FailsToEvaluate("{d[0][0]} = 1 / 0")
       /\ FailsToEvaluate("{d[0][0]} = 1 / (2 - 2)")
       /\ (pass.deviceValues.deviceCount > 1 /\ pass.deviceValues.values[1][1] = Num(0))
             => FailsToEvaluate("{d[0][0]} = 1 / {d[1][1]}")
       /\ \A e \in {"1 / 0", "1 / (2 - 2)"} :
             /\ ~evaluateExpression(e, <<>>).ok
             /\ evaluateExpression(e, <<>>).err = "Divisao por zero"
       /\ evaluateExpression("5 % 0", <<>>).ok
       /\ (StatementStep /\ LastLine.stmt = "{d[0][0]} = 5 % 0")
             => LastLine.kind \in {"assignment_done", "modbus_write_error"}
       /\ Stores("6 / 3", 2)
       /\ Stores("7 % 4", 3)]_vars

\* "{d[0][0]} = 5 % 0" was evaluated without error and went on to the
\* assignment of d[0][0]
C23_RemainderByZeroAssigned ==
    /\ pc[LoopTask] = "lineLoop"
    /\ Len(console) = 1
    /\ console[1].stmt = "{d[0][0]} = 5 % 0"
    /\ console[1].kind = "assignment_done"
    /\ Len(bus) > 0
    /\ bus[Len(bus)].op = "write"

\* pairs of operands with the truth of |l - r| < 0.000001; 5 % 0 is fmod(5, 0),
\* which is not a number, and its distance to 1 is below nothing
EqualityCases ==
    {[l |-> "1.0000005", r |-> "1", near |-> TRUE],
     [l |-> "1.000002", r |-> "1", near |-> FALSE],
     [l |-> "(5 % 0)", r |-> "1", near |-> FALSE]}

\* C24: a == b evaluates to 1 exactly when |a - b| is below 0.000001, and
\* a != b evaluates to 1 exactly when a == b evaluates to 0; a comparison in
\* parentheses is an operand of further arithmetic: (3 > 2) + (5 > 4) is 2
\* and (3 > 2) + (4 > 5) is 1.
C24_Comparisons ==
    [][/\ \A c \in EqualityCases :
             /\ Stores(c.l \o " == " \o c.r, IF c.near THEN 1 ELSE 0)
             /\ Stores(c.l \o " != " \o c.r, IF c.near THEN 0 ELSE 1)
       /\ Stores("(3 > 2) + (5 > 4)", 2)
       /\ Stores("(3 > 2) + (4 > 5)", 1)]_vars

\* statements that assign a literal value to a temporary variable, with the
\* name (5 characters at most) and the value
VariableAssignments ==
    {[stmt |-> "a = 2", name |-> "a", value |-> Num(2)],
     [stmt |-> "tmp = 1 + 2", name |-> "tmp", value |-> Num(3)],
     [stmt |-> "total1 = 1", name |-> "total", value |-> Num(1)]}

\* the positions of the variable table that hold name
Bound(table, name) == {k \in 1 .. Len(table) : table[k].name = name}

Contexts ==
    {[before |-> b, after |-> a] :
        b \in {"", "2 + ", "2 * ", "2 / ", "2 ^ ", "(", "abs("},
        a \in {"", " + 2", " * 2", " / 2", " % 2", " ^ 2", ") * 2", ")", " > 1"}}

\* the call of evaluateExpression for the expression c.before name c.after
\* has returned
Evaluated(c, name) ==
    /\ pc[LoopTask] = "idle"
    /\ pass.processedExpression = c.before \o name \o c.after

\* C26: with a table that binds x to v, evaluateExpression gives an
\* expression that uses x, in any operand position, the result it gives the
\* expression with the literal v in the place of x (success and value:
\* "x * 2" is 2 * v and "x ^ 2" is v squared); the unknown-variable error is
\* given only for an identifier that is not bound and not followed by '('.
C26_VariableAsOperand ==
    \A c \in Contexts :
        /\ \A k \in 1 .. Len(pass.tempVariables) :
              (Evaluated(c, "x") /\ pass.tempVariables[k].name = "x")
              => /\ ret[LoopTask].ok
                    = evaluateExpression(c.before \o ToString(pass.tempVariables[k].value.n)
                                            \o c.after, <<>>).ok
                 /\ ret[LoopTask].val
                    = evaluateExpression(c.before \o ToString(pass.tempVariables[k].value.n)
                                            \o c.after, <<>>).val
                 /\ ret[LoopTask].err # "Variavel ou funcao desconhecida"
        /\ (Evaluated(c, "y") \/ (Evaluated(c, "x") /\ pass.tempVariables = <<>>))
              => /\ ~ret[LoopTask].ok
                 /\ ret[LoopTask].err = "Variavel ou funcao desconhecida"

\* C27: a chain of operators of the multiplicative level is evaluated from
\* left to right: 8 / 2 / 2 is (8 / 2) / 2 = 2 and 7 % 4 * 2 is
\* (7 % 4) * 2 = 6, the values the parenthesised forms give.
C27_LeftToRight ==
    [][/\ Stores("(8 / 2) / 2", 2)
       /\ Stores("8 / 2 / 2", 2)
       /\ Stores("(7 % 4) * 2", 6)
       /\ Stores("7 % 4 * 2", 6)]_vars

\* the result of the right-hand side of statement s in the current pass
ResultOf(s) ==
    evaluateExpression(substituteDeviceValues(RightSide(s), pass.deviceValues, <<>>, 0).out,
                       <<>>).val

\* x limited to the range 0 .. 65535
Limited(x) == IF RLt(x, Num(0)) THEN Num(0) ELSE IF RLt(Num(65535), x) THEN Num(65535) ELSE x

\* the raw value of register reg for the processed value v: the inverse
\* conversion, limited to the raw range, truncated toward zero
RawFor(reg, v) == Limited(RDiv(RSub(v, reg.offset), reg.gain)).n
                      \div Limited(RDiv(RSub(v, reg.offset), reg.gain)).d

\* the register write of the loop task for register j of device i with value
WriteOf(cfg, i, j, value) ==
    [op |-> "write", task |-> LoopTask, dev |-> i, reg |-> j,
     slave |-> cfg.devices[i].slaveAddress,
     address |-> cfg.devices[i].registers[j].address, value |-> value]

\* C28: a script assignment that is carried out, of a result v that is a
\* number, to register j of device i, leaves as the cached raw value of the
\* register (v - offset) / gain limited to 0 .. 65535 and truncated toward
\* zero, changes no other register, and sends exactly one write, of that
\* value, to the address of the register on the slave address of the device.
C28_RawValueWritten ==
    [][(/\ StatementStep
        /\ LastLine.kind \in {"assignment_done", "modbus_write_error"}
        /\ ~IsNaN(ResultOf(LastLine.stmt)))
       => \E i \in {parseAssignment(LastLine.stmt).targetDeviceIndex},
             j \in {parseAssignment(LastLine.stmt).targetRegisterIndex} :
             /\ ~IsZero(config.devices[i].registers[j].gain)
             /\ ~config.devices[i].registers[j].readOnly
             /\ config' = [config EXCEPT !.devices[i].registers[j].value =
                              RawFor(config.devices[i].registers[j], ResultOf(LastLine.stmt))]
             /\ bus' = Append(bus, WriteOf(config, i, j,
                              RawFor(config.devices[i].registers[j], ResultOf(LastLine.stmt))))
      ]_vars

\* "{d[1][0]} = 4.5" was carried out on the register with gain 2 and offset 1
\* at address 20 of slave 2: the raw value (4.5 - 1) / 2 = 1.75 was cached
\* and written as 1
C28_TruncatedValueWritten ==
    /\ pc[LoopTask] = "lineLoop"
    /\ Len(console) = 1
    /\ console[1].stmt = "{d[1][0]} = 4.5"
    /\ console[1].kind = "assignment_done"
    /\ config.devices[1].registers[0].gain = Num(2)
    /\ config.devices[1].registers[0].value = 1
    /\ bus[Len(bus)] = [op |-> "write", task |-> LoopTask, dev |-> 1, reg |-> 0,
                        slave |-> 2, address |-> 20, value |-> 1]

\* performCalculations has built the snapshot and enters the line loop
SnapshotStep == pc[LoopTask] = "performCalculations" /\ pc'[LoopTask] = "lineLoop"

\* C29: the snapshot built at the start of a pass has exactly deviceCount
\* rows and registerCount(i) entries in row i, and its entry for register j
\* of device i is estimate * gain + offset when the register is smoothed and
\* the state of its filter is initialized, raw * gain + offset otherwise.
C29_SnapshotValues ==
    [][SnapshotStep
       => /\ pass'.deviceValues.deviceCount = config.deviceCount
          /\ DOMAIN pass'.deviceValues.values = 0 .. (config.deviceCount - 1)
          /\ DOMAIN pass'.deviceValues.registerCounts = 0 .. (config.deviceCount - 1)
          /\ \A i \in 0 .. (config.deviceCount - 1) :
                /\ pass'.deviceValues.registerCounts[i] = config.devices[i].registerCount
                /\ DOMAIN pass'.deviceValues.values[i]
                      = 0 .. (config.devices[i].registerCount - 1)
                /\ \A j \in 0 .. (config.devices[i].registerCount - 1) :
                      pass'.deviceValues.values[i][j] =
                          RAdd(RMul(IF Smoothed(config, i, j) /\ kalmanStates[i][j].initialized
                                    THEN kalmanStates[i][j].estimate
                                    ELSE Num(config.devices[i].registers[j].value),
                                    config.devices[i].registers[j].gain),
                               config.devices[i].registers[j].offset)]_vars

\* a pass has begun after a save zeroed the cached raw value of the smoothed
\* register, whose gain is 2 and offset 1: its snapshot value is 7 * 2 + 1,
\* from the estimate 7 of its filter
C29_SnapshotFromEstimate ==
    /\ pc[LoopTask] = "lineLoop"
    /\ console = <<>>
    /\ config.devices[0].registers[0].kalmanEnabled
    /\ kalmanStates[0][0].initialized
    /\ kalmanStates[0][0].estimate = Num(7)
    /\ config.devices[0].registers[0].value = 0
    /\ pass.deviceValues.values[0][0] = Num(15)
    /\ pass.deviceValues.registerCounts = [i \in {0, 1} |-> i + 1]

\* a handler answers 503: its lockConfig timed out and it cleared the pause flag
BusyRejection ==
    /\ pc[WebTask] = "admin_lock"
    /\ pc'[WebTask] = "idle"
    /\ req'.status = 503

AnswersBadRequest ==
    /\ req'.handler \in {"handleSaveConfig", "handleImportConfig"}
    /\ req' # req
    /\ req'.status = 400

\* C31: a save or import request that is answered with an error (an empty or
\* malformed body, invalid JSON, JSON without a "devices" array) leaves the
\* in-memory configuration as it was: the step in which the handler answers
\* 400 changes neither the serial settings, nor the script, nor deviceCount,
\* nor any device or register.
C31_ErrorLeavesConfig ==
    [][AnswersBadRequest => config' = config]_vars

\* task t returns from loadConfig, saveConfig or resetConfig to a caller that
\* held nothing when it made the call
ReturnsToFreeCaller(t) ==
    /\ pc[t] \in {"loadConfig", "saveConfig_write", "resetConfig_return"}
    /\ pc'[t] # pc[t]
    /\ stack[t] \in {<<>>, <<"idle">>}
    /\ Hold(t) = (IF pc[t] = "loadConfig" THEN 0 ELSE 1)

\* C32: loadConfig, saveConfig and resetConfig release the guard on every
\* return path as many times as they acquired it: when one of them returns to
\* a caller that did not hold the guard, the guard is free.
C32_StorageReleasesGuard ==
    [][\A t \in Tasks : ReturnsToFreeCaller(t) => g_configMutex'.owner = "none"]_vars

\* C33: in every state config.deviceCount is at most MAX_DEVICES and the
\* registerCount of every device below deviceCount is at most
\* MAX_REGISTERS_PER_DEVICE, so that the loops of the cycle over
\* i < config.deviceCount and j < config.devices[i].registerCount stay inside
\* config.devices, a device's registers and kalmanStates.
C33_CountsWithinBounds ==
    /\ config.deviceCount <= MAX_DEVICES
    /\ \A i \in DevIdx :
          i < config.deviceCount
             => config.devices[i].registerCount <= MAX_REGISTERS_PER_DEVICE

\* a statement of the current pass stored its result in register j of device i:
\* an assignment to {d[i][j]}, or the statement without assignment that took
\* the fallback to the first output register
StoredByStatement(i, j) ==
    \E n \in 1 .. Len(console) :
        \/ /\ console[n].kind \in {"assignment_done", "modbus_write_error"}
           /\ parseAssignment(console[n].stmt).targetDeviceIndex = i
           /\ parseAssignment(console[n].stmt).targetRegisterIndex = j
        \/ /\ console[n].kind = "calculation_done"
           /\ FirstOutput(config, 0, 0) = <<i, j>>

\* C35: in each cycle writeOutputRegisters sends to the devices only
\* registers whose cached value was stored by a statement of that cycle; a
\* register whose cached value comes from the read phase, or that was never
\* assigned, is not written back.
C35_WritePhaseOnlyAssigned ==
    [][(pc[LoopTask] = "writeOutputRegisters" /\ Len(bus') > Len(bus))
          => \A n \in (Len(bus) + 1) .. Len(bus') :
                StoredByStatement(bus'[n].dev, bus'[n].reg)]_vars

\* the web task answers a manual write with 200
ManualWriteDone ==
    /\ req'.handler = "handleWriteVariable"
    /\ req' # req
    /\ req'.status = 200

\* what an assignment "{d[i][j]} = value" of a script does for the parameters
\* w of a manual write, when the slave accepts the write
AsAssignment(w) ==
    AssignRegister(config, <<>>, w.deviceIndex, w.registerIndex, w.value, 1, "",
                   Success, 0)

\* C36: a manual write of an engineering value to a register sends the same
\* raw value to the device, and caches the same raw value, as the script
\* assignment of that value to that register, also when the inverse
\* conversion is not an integer or lies outside 0..65535.
C36_ManualWriteAsAssignment ==
    [][ManualWriteDone
          => /\ Len(AsAssignment(req'.write).bus) = 1
             /\ bus'[Len(bus')].value = AsAssignment(req'.write).bus[1].value
             /\ config'.devices[req'.write.deviceIndex].registers[req'.write.registerIndex].value
                   = AsAssignment(req'.write).config.devices[req'.write.deviceIndex]
                        .registers[req'.write.registerIndex].value]_vars

\* C38: if(c, a, b) evaluates both a and b whatever the value of c: an
\* evaluation error in either branch, selected or not, makes the statement
\* fail and nothing is assigned; when both branches evaluate, the statement
\* stores a for a non-zero c and b for a zero c.
C38_IfEvaluatesBothBranches ==
    [][/\ FailsToEvaluate("{d[0][0]} = if(0, 1 / 0, 5)")
       /\ FailsToEvaluate("{d[0][0]} = if(1, 5, 1 / 0)")
       /\ FailsToEvaluate("{d[0][0]} = if(1, 1 / 0, 5)")
       /\ \A e \in {"if(0, 1 / 0, 5)", "if(1, 5, 1 / 0)", "if(1, 1 / 0, 5)"} :
             /\ ~evaluateExpression(e, <<>>).ok
             /\ evaluateExpression(e, <<>>).err = "Divisao por zero"
       /\ Stores("if(1, 3, 4)", 3)
       /\ Stores("if(0, 3, 4)", 4)]_vars

\* "{d[0][0]} = if(0, 1 / 0, 5)" was processed and failed, although its
\* condition selects the branch 5
C38_UnselectedBranchFailed ==
    /\ pc[LoopTask] = "lineLoop"
    /\ Len(console) = 1
    /\ console[1].stmt = "{d[0][0]} = if(0, 1 / 0, 5)"
    /\ console[1].kind = "evaluation_error"
    /\ \A n \in 1 .. Len(bus) : bus[n].op # "write"

\* pairs of operands for which a == b evaluates to 1
EqualOperands == {[l |-> "1", r |-> "1"], [l |-> "1.0000005", r |-> "1"]}

\* C39: the ordering comparisons agree with the tolerance of equality: for
\* operands a and b with a == b evaluating to 1, a >= b and a <= b evaluate
\* to 1 and a > b and a < b evaluate to 0.
C39_OrderingAgreesWithEquality ==
    [][\A c \in EqualOperands :
          /\ evaluateExpression(c.l \o " == " \o c.r, <<>>).val = Num(1)
          /\ Stores(c.l \o " >= " \o c.r, 1)
          /\ Stores(c.l \o " <= " \o c.r, 1)
          /\ Stores(c.l \o " > " \o c.r, 0)
          /\ Stores(c.l \o " < " \o c.r, 0)]_vars

\* task t runs one iteration of the device loop of readAllDevices
ReadStep(t) == pc[t] = "readAllDevices" /\ idx'[t] = idx[t] + 1

\* the cached value and the filter state of register j of device i after the
\* step are those that configuration cfg and the filter states kstates hold
SameRegisterState(i, j, cfg, kstates) ==
    /\ config'.devices[i].registers[j].value = cfg.devices[i].registers[j].value
    /\ kalmanStates'[i][j] = kstates[i][j]

\* what a successful read of register j of device i gives in the current state
SuccessfulRead(t, i, j) ==
    {ReadRegister([config |-> config, kalmanStates |-> kalmanStates, bus |-> <<>>],
                  t, i, j, outcome)
     : outcome \in {o \in ReadOutcomes : o.result = Success}}

\* C34: a read of a register changes its cached raw value and its filter
\* state only when the slave answers with success: after an iteration of the
\* read loop every register either has the cached value and the filter state
\* it had, or belongs to the device of the iteration, which is enabled, is
\* readable, and has the cached value and the filter state of a successful
\* read; and no other step of the cycle changes a filter state.  So a failed
\* read, a disabled device and a register that is not read leave the value
\* and the smoothing state as they were.
C34_FailedReadChangesNothing ==
    [][/\ \A t \in Tasks : ReadStep(t) =>
             \A i \in DevIdx : \A j \in RegIdx :
                \/ SameRegisterState(i, j, config, kalmanStates)
                \/ /\ i = idx[t]
                   /\ config.devices[i].enabled
                   /\ j < config.devices[i].registerCount
                   /\ ShouldRead(config.devices[i].registers[j])
                   /\ \E st \in SuccessfulRead(t, i, j) :
                         SameRegisterState(i, j, st.config, st.kalmanStates)
       /\ (\A t \in Tasks : ~ReadStep(t)) => kalmanStates' = kalmanStates]_vars

\* the read phase is over: the smoothed register of the enabled device 1 was
\* requested on the bus, and its cached value and its filter state are those
\* from before the cycle (a successful read would have moved the estimate)
C34_FailedReadOfSmoothedRegister ==
    /\ pc[LoopTask] = "performCalculations"
    /\ config.devices[1].enabled
    /\ \E n \in 1 .. Len(bus) : bus[n].op = "read" /\ bus[n].dev = 1 /\ bus[n].reg = 0
    /\ config.devices[1].registers[0].value = 9
    /\ kalmanStates[1][0] = [estimate |-> Num(9), errorCov |-> Num(1), initialized |-> TRUE]
    /\ kalmanStates[1][1].initialized

\* right-hand sides with the placeholder {d[0][0]}, cut at the placeholder
OperandContexts ==
    {[before |-> "", after |-> "^2"],
     [before |-> "2*", after |-> "^2 / 2"],
     [before |-> "0 - ", after |-> ""],
     [before |-> "", after |-> " + 10"]}

\* the value of a right-hand side whose placeholder is the single operand
\* (v): the text of v in parentheses
AsOperand(c, v) ==
    evaluateExpression(c.before \o "(" \o FormatValue(v) \o ")" \o c.after, <<>>)

\* C37: for every snapshot value v, negative ones included, the statement
\* "{d[0][1]} = ...{d[0][0]}..." stores the value its right-hand side has when
\* the placeholder is a single operand of value v: the text that
\* substituteDeviceValues produces evaluates as the expression with (v) in the
\* place of the placeholder; {d[0][0]}^2 with v = -3 gives 9.
C37_PlaceholderIsOperand ==
    [][\A c \in OperandContexts :
          (StatementStep
             /\ LastLine.stmt = "{d[0][1]} = " \o c.before \o "{d[0][0]}" \o c.after
             /\ AsOperand(c, pass.deviceValues.values[0][0]).ok)
          => /\ LastLine.kind \in {"assignment_done", "modbus_write_error"}
             /\ config'.devices[0].registers[1].value
                   = ClampUint16(AsOperand(c, pass.deviceValues.values[0][0]).val, 0)
      ]_vars

====
